---- MODULE Spec2Model ----
(***************************************************************************)
(* systemd-firstboot (src/src/firstboot/firstboot.c) as a state machine.   *)
(*                                                                         *)
(* One process is one invocation of run(): parse_argv(), the kill switch,  *)
(* then the seven process_*() steps in their fixed order.  Every blocking  *)
(* point of the code (a terminal read, the lock, each system call of the   *)
(* credential-table writers) is a value of pc, so that two invocations on  *)
(* the same target root can interleave.                                    *)
(***************************************************************************)
EXTENDS Integers, Sequences, FiniteSets, TLC

VARIABLES
    pc,       \* pc[p]: where invocation p stands in run()
    arg,      \* arg[p]: the arg_* globals, firstboot.c:37-57
    arg0,     \* arg[p] as parse_argv() left it (what a re-run parses again)
    runNo,    \* runNo[p]: 1 for the first invocation, 2 for the re-run
    ret,      \* ret[p]: [status, step] - the result of run()
    ui,       \* ui[p]: print_welcome()'s static `done`, banners shown, questions asked,
              \*        and the last line prompt_loop() read
    touched,  \* touched[p]: destinations created, rewritten or replaced by this run
    hp,       \* hp[p]: hashed_password / password handed to the table writer
    pw1,      \* pw1[p]: first answer `a` of prompt_root_password()
    tmp,      \* tmp[p]: the temporary file of the table writer
    idx,      \* idx[p]: next record of `original` to read
    fs,       \* the destination files under the target root
    fs0,      \* fs when the current run started
    lock,     \* holder of the /etc/.pwd.lock of the target root, 0 when free
    given,    \* given[p]: the options of argv that parse_argv() has read so far
    env,      \* what the host and the operator answered so far ("?": not yet asked)
    menu,     \* the menu listing of prompt_loop() and show_menu(), firstboot.c:114-211
    qdisc     \* the NetworkEmulator qdisc of one [NetworkEmulator] section, netem.c

vars == <<pc, arg, arg0, runNo, ret, ui, touched, hp, pw1, tmp, idx, fs, fs0, lock, given, env,
          menu, qdisc>>

\* the variables that systemd-firstboot's run() does not touch
sideVars == <<menu, qdisc>>
MenuNone == [st |-> "idle"]
QDiscNone == [st |-> "idle"]
SideInit == menu = MenuNone /\ qdisc = QDiscNone

(***************************************************************************)
(* Bounds of the model.                                                    *)
(***************************************************************************)
\* distinct options on the command line besides --root and --force
MaxOpts == 2
\* records in a pre-existing passwd or shadow table
MaxRecs == 2

Procs == {1, 2}

\* A NULL char* (distinct from the empty string).
Null == "<NULL>"

isempty(s) == s = Null \/ s = ""

(***************************************************************************)
(* External validators and enumerators (not part of firstboot.c).          *)
(***************************************************************************)
SYSTEMD_DEFAULT_LOCALE == "C.UTF-8"

ValidLocales == {"de_DE", "en_US", "fr_FR", SYSTEMD_DEFAULT_LOCALE}
InstalledLocales == {"de_DE", "en_US"}

locale_is_valid(name) == name \in ValidLocales
locale_is_installed(name) == name \in InstalledLocales
keymap_is_valid(name) == name \in {"us", "de"}
timezone_is_valid(name) == name \in {"UTC", "Europe/Berlin"}
hostname_is_valid(name) == name \in {"host", "host."}
hostname_cleanup(name) == IF name = "host." THEN "host" ELSE name
\* sd_id128_from_string(): plain or UUID-formatted hexadecimal digits; the value
\* is kept as sd_id128_to_string() prints it, and the null id as Null
ZeroMachineId == "00000000000000000000000000000000"
sd_id128_from_string_ok(s) ==
    s \in {"0123456789abcdef0123456789abcdef", "01234567-89AB-CDEF-0123-456789ABCDEF",
           ZeroMachineId}
sd_id128_from_string(s) ==
    IF s = ZeroMachineId THEN Null ELSE "0123456789abcdef0123456789abcdef"

\* firstboot.c:213-219
locale_is_ok(a, name) ==
    IF a.root THEN locale_is_valid(name) ELSE locale_is_installed(name)

(***************************************************************************)
(* The arg_* globals after static initialisation, firstboot.c:37-57.       *)
(***************************************************************************)
ArgInit ==
    [ root |-> FALSE, locale |-> Null, locale_messages |-> Null, keymap |-> Null,
      timezone |-> Null, hostname |-> Null, machine_id |-> Null,
      root_password |-> Null, kernel_cmdline |-> Null,
      prompt_locale |-> FALSE, prompt_keymap |-> FALSE, prompt_timezone |-> FALSE,
      prompt_hostname |-> FALSE, prompt_root_password |-> FALSE,
      copy_locale |-> FALSE, copy_keymap |-> FALSE, copy_timezone |-> FALSE,
      copy_root_password |-> FALSE, force |-> FALSE,
      delete_root_password |-> FALSE, root_password_is_hashed |-> FALSE ]

Opt(o, v) == [opt |-> o, val |-> v]

\* --root and --force: not counted against MaxOpts
GlobalOptions == { Opt("root", "/mnt"), Opt("force", "") }

LocaleOptions ==
    { Opt("locale", "de_DE"), Opt("locale", "fr_FR"),
      Opt("locale-messages", "de_DE"), Opt("locale-messages", "en_US"),
      Opt("prompt-locale", ""), Opt("copy-locale", "") }

KeymapOptions ==
    { Opt("keymap", "us"), Opt("keymap", "bad keymap"),
      Opt("prompt-keymap", ""), Opt("copy-keymap", "") }

TimezoneOptions ==
    { Opt("timezone", "UTC"), Opt("timezone", "Nowhere"),
      Opt("prompt-timezone", ""), Opt("copy-timezone", "") }

HostnameOptions ==
    { Opt("hostname", "host."), Opt("hostname", "-bad-"), Opt("prompt-hostname", "") }

MachineIdOptions ==
    { Opt("machine-id", "01234567-89AB-CDEF-0123-456789ABCDEF"),
      Opt("machine-id", ZeroMachineId), Opt("machine-id", "xyz"),
      Opt("setup-machine-id", "") }

CredOptions ==
    { Opt("root-password", "hunter2"), Opt("root-password", ""),
      Opt("root-password-file", "/run/pw"), Opt("root-password-hashed", "$6$prehashed"),
      Opt("prompt-root-password", ""), Opt("copy-root-password", ""),
      Opt("delete-root-password", "") }

CmdlineOptions ==
    { Opt("kernel-command-line", "quiet"), Opt("kernel-command-line", "") }

\* --prompt and --copy set every prompt_* or copy_* flag at once
AllOptions == { Opt("prompt", ""), Opt("copy", "") }

Options ==
    LocaleOptions \cup KeymapOptions \cup TimezoneOptions \cup HostnameOptions
        \cup MachineIdOptions \cup CredOptions \cup CmdlineOptions

\* read_one_line_file() of the --root-password-file argument
PasswordFileLine == "filepw"
\* sd_id128_randomize()
RandomMachineId == "fedcba9876543210fedcba9876543210"

\* One iteration of the getopt_long() loop, firstboot.c:940-1109:
\* [a: the globals afterwards, r: 0 to go on, -1 when the case returns an error]
ParseOpt(a, o) ==
    LET ok(b)  == [a |-> b, r |-> 0]
        bad    == [a |-> a, r |-> 0 - 1]
    IN CASE o.opt = "root" -> ok([a EXCEPT !.root = TRUE])
         [] o.opt = "locale" -> ok([a EXCEPT !.locale = o.val])
         [] o.opt = "locale-messages" -> ok([a EXCEPT !.locale_messages = o.val])
         [] o.opt = "keymap" ->
                IF ~keymap_is_valid(o.val) THEN bad ELSE ok([a EXCEPT !.keymap = o.val])
         [] o.opt = "timezone" ->
                IF ~timezone_is_valid(o.val) THEN bad ELSE ok([a EXCEPT !.timezone = o.val])
         [] o.opt = "root-password" ->
                ok([a EXCEPT !.root_password = o.val, !.root_password_is_hashed = FALSE])
         [] o.opt = "root-password-file" ->
                ok([a EXCEPT !.root_password = PasswordFileLine,
                             !.root_password_is_hashed = FALSE])
         [] o.opt = "root-password-hashed" ->
                ok([a EXCEPT !.root_password = o.val, !.root_password_is_hashed = TRUE])
         [] o.opt = "hostname" ->
                IF ~hostname_is_valid(o.val) THEN bad
                ELSE ok([a EXCEPT !.hostname = hostname_cleanup(o.val)])
         [] o.opt = "machine-id" ->
                IF ~sd_id128_from_string_ok(o.val) THEN bad
                ELSE ok([a EXCEPT !.machine_id = sd_id128_from_string(o.val)])
         [] o.opt = "kernel-command-line" -> ok([a EXCEPT !.kernel_cmdline = o.val])
         [] o.opt = "prompt" ->
                ok([a EXCEPT !.prompt_locale = TRUE, !.prompt_keymap = TRUE,
                             !.prompt_timezone = TRUE, !.prompt_hostname = TRUE,
                             !.prompt_root_password = TRUE])
         [] o.opt = "prompt-locale" -> ok([a EXCEPT !.prompt_locale = TRUE])
         [] o.opt = "prompt-keymap" -> ok([a EXCEPT !.prompt_keymap = TRUE])
         [] o.opt = "prompt-timezone" -> ok([a EXCEPT !.prompt_timezone = TRUE])
         [] o.opt = "prompt-hostname" -> ok([a EXCEPT !.prompt_hostname = TRUE])
         [] o.opt = "prompt-root-password" -> ok([a EXCEPT !.prompt_root_password = TRUE])
         [] o.opt = "copy" ->
                ok([a EXCEPT !.copy_locale = TRUE, !.copy_keymap = TRUE,
                             !.copy_timezone = TRUE, !.copy_root_password = TRUE])
         [] o.opt = "copy-locale" -> ok([a EXCEPT !.copy_locale = TRUE])
         [] o.opt = "copy-keymap" -> ok([a EXCEPT !.copy_keymap = TRUE])
         [] o.opt = "copy-timezone" -> ok([a EXCEPT !.copy_timezone = TRUE])
         [] o.opt = "copy-root-password" -> ok([a EXCEPT !.copy_root_password = TRUE])
         [] o.opt = "setup-machine-id" -> ok([a EXCEPT !.machine_id = RandomMachineId])
         [] o.opt = "force" -> ok([a EXCEPT !.force = TRUE])
         [] o.opt = "delete-root-password" -> ok([a EXCEPT !.delete_root_password = TRUE])

\* Variant of the checks after the loop without the test of
\* --delete-root-password against the other sources
ParseEnd_NoConflictCheck(a) ==
    IF a.locale # Null /\ ~locale_is_ok(a, a.locale) THEN 0 - 1
    ELSE IF a.locale_messages # Null /\ ~locale_is_ok(a, a.locale_messages) THEN 0 - 1
    ELSE 1

\* The checks after the loop, firstboot.c:1111-1123: 1 to proceed, -1 on a policy error
ParseEnd(a) ==
    IF a.locale # Null /\ ~locale_is_ok(a, a.locale) THEN 0 - 1
    ELSE IF a.locale_messages # Null /\ ~locale_is_ok(a, a.locale_messages) THEN 0 - 1
    ELSE IF a.delete_root_password
            /\ (a.copy_root_password \/ a.root_password # Null \/ a.prompt_root_password)
         THEN 0 - 1
    ELSE 1

(***************************************************************************)
(* The target root: one entry per destination file, firstboot.c:280, 347,  *)
(* 419, 499, 525, 729, 743, 812.                                           *)
(***************************************************************************)
Dest == {"locale.conf", "vconsole.conf", "localtime", "hostname", "machine-id",
         "shadow", "passwd", "cmdline"}

Tables == {"passwd", "shadow"}

EmptyData(f) ==
    IF f \in {"locale.conf", "vconsole.conf"} \cup Tables THEN <<>> ELSE ""

Absent(f) == [exists |-> FALSE, data |-> EmptyData(f), mode |-> "0000"]

File(d, m) == [exists |-> TRUE, data |-> d, mode |-> m]

\* laccess(path, F_OK) >= 0
laccess(f) == fs[f].exists

\* What the host holds (the sources of --copy-*)
HostLocaleConf == <<"LANG=en_US">>
HostVconsoleConf == <<"KEYMAP=de">>
HostLocaltime == "../usr/share/zoneinfo/Europe/Berlin"
HostRootHash == "$6$hosthash"

\* now(CLOCK_REALTIME) / USEC_PER_DAY
Today == 20393

\* crypt_r() of a plaintext under a salt
crypt_r(password, salt) == "$6$" \o salt \o "$H(" \o password \o ")"

Salts == {"saltA", "saltB"}

(***************************************************************************)
(* Records of the two tables.                                              *)
(***************************************************************************)
PwRec(n, pw, id, gecos, dir, sh) ==
    [name |-> n, cred |-> pw, uid |-> id, gid |-> id, gecos |-> gecos,
     dir |-> dir, shell |-> sh]

SpRec(n, pw, lstchg, mx) ==
    [name |-> n, cred |-> pw, lstchg |-> lstchg, min |-> 0, max |-> mx,
     warn |-> 7, inact |-> 0 - 1, expire |-> 0 - 1, flag |-> 0 - 1]

\* struct passwd root, firstboot.c:622-630
SynthPasswd(password) ==
    [name |-> "root", cred |-> password, uid |-> 0, gid |-> 0,
     gecos |-> "Super User", dir |-> "/root", shell |-> "/bin/sh"]

\* struct spwd root, firstboot.c:687-697
SynthShadow(hashed_password) ==
    [name |-> "root", cred |-> hashed_password, lstchg |-> Today,
     min |-> 0 - 1, max |-> 0 - 1, warn |-> 0 - 1, inact |-> 0 - 1,
     expire |-> 0 - 1, flag |-> 0 - 1]

Synth(k, password) ==
    IF k = "passwd" THEN SynthPasswd(password) ELSE SynthShadow(password)

\* The body of the while loops, firstboot.c:611-612 and 674-677
MergePasswd(i, password) ==
    IF i.name = "root" THEN [i EXCEPT !.cred = password] ELSE i

MergeShadow(i, hashed_password) ==
    IF i.name = "root"
    THEN [i EXCEPT !.cred = hashed_password, !.lstchg = Today]
    ELSE i

\* Variant of the loop body without the test of the record's name
Merge_EveryRecord(k, i, password) ==
    IF k = "passwd" THEN [i EXCEPT !.cred = password]
    ELSE [i EXCEPT !.cred = password, !.lstchg = Today]

Merge(k, i, password) ==
    IF k = "passwd" THEN MergePasswd(i, password) ELSE MergeShadow(i, password)

\* Records a pre-existing table may hold
OldRecs(k) ==
    IF k = "passwd"
    THEN { PwRec("root", "x", 0, "root", "/root", "/bin/bash"),
           PwRec("daemon", "x", 1, "daemon", "/", "/sbin/nologin"),
           PwRec("alice", "x", 1000, "Alice", "/home/alice", "/bin/sh") }
    ELSE { SpRec("root", "$6$oldhash", 18000, 99999),
           SpRec("daemon", "*", 18000, 99999),
           SpRec("alice", "$6$alicehash", 18100, 90) }

OldTables(k) == UNION { [1..n -> OldRecs(k)] : n \in 0..MaxRecs }

\* Content of a destination that exists before the run
OldData(f) ==
    CASE f = "locale.conf" -> <<"LANG=old_OLD">>
      [] f = "vconsole.conf" -> <<"KEYMAP=old">>
      [] f = "localtime" -> "../usr/share/zoneinfo/Old/Zone"
      [] f = "hostname" -> "oldhost"
      [] f = "machine-id" -> "00000000000000000000000000000001"
      [] f = "cmdline" -> "old=1"

(***************************************************************************)
(* Answers of the environment.  A host file, an enumerator or the operator  *)
(* answers the same question the same way for the whole scenario: env[q]   *)
(* is "?" until q is asked for the first time and the answer from then on. *)
(***************************************************************************)
Queries == {"kill", "host_locale", "host_vconsole", "host_localtime", "getspnam",
            "get_locales", "get_keymaps", "get_timezones",
            "ans_locale", "ans_messages", "ans_keymap", "ans_timezone",
            "ans_hostname", "ans_password"}

EnvInit == [q \in Queries |-> "?"]

Consistent(e, q, v) == e[q] \in {"?", v}
Rec(e, q, v) == [e EXCEPT ![q] = v]

\* ask_string() / ask_password_tty() returning r < 0
ReadError == "<EIO>"

\* get_locales(), get_keymaps(), get_timezones(); the zone table may name a
\* zone whose file timezone_is_valid() does not find
LocaleList(tag) ==
    CASE tag = "empty" -> <<>>
      [] tag = "default" -> <<SYSTEMD_DEFAULT_LOCALE>>
      [] tag = "single" -> <<"de_DE">>
      [] tag = "many" -> <<"de_DE", "en_US">>
KeymapList == <<"de", "us">>
TimezoneList == <<"Europe/Berlin", "UTC", "Stale/Zone">>

\* safe_atou(): the number, or -1 when the string is no unsigned number
\* the decimal numerals of 1, 2, ...: what printf("%zu") writes and safe_atou() reads
Numerals ==
    << "1", "2", "3", "4", "5", "6", "7", "8", "9", "10", "11", "12",
       "13", "14", "15", "16", "17", "18", "19", "20", "21", "22", "23", "24" >>

safe_atou(s) ==
    CASE s = "0" -> 0 [] s = "1" -> 1 [] s = "2" -> 2 [] s = "3" -> 3 [] s = "4" -> 4
      [] OTHER -> IF \E n \in DOMAIN Numerals : Numerals[n] = s
                  THEN CHOOSE n \in DOMAIN Numerals : Numerals[n] = s
                  ELSE 0 - 1

\* Variant of prompt_loop() in which a number out of range is a fatal error
prompt_loop_RangeFatal(p, l, is_valid, cur) ==
    IF p = ReadError THEN [k |-> "fail", ret |-> cur]
    ELSE IF isempty(p) THEN [k |-> "return", ret |-> cur]
    ELSE IF p = "list" THEN [k |-> "again", ret |-> cur]
    ELSE IF safe_atou(p) >= 0
         THEN IF safe_atou(p) = 0 \/ safe_atou(p) > Len(l)
              THEN [k |-> "fail", ret |-> cur]
              ELSE [k |-> "return", ret |-> l[safe_atou(p)]]
    ELSE IF ~is_valid THEN [k |-> "again", ret |-> cur]
    ELSE [k |-> "return", ret |-> p]

\* One iteration of prompt_loop(), firstboot.c:167-210, on the line p read by
\* ask_string(), is_valid being the answer of the validator on that line:
\* k = "again" (continue), "return" (return 0) or "fail" (r < 0)
\* (failed allocations, log_oom(), are left out)
prompt_loop(p, l, is_valid, cur) ==
    IF p = ReadError THEN [k |-> "fail", ret |-> cur]
    ELSE IF isempty(p) THEN [k |-> "return", ret |-> cur]
    ELSE IF p = "list" THEN [k |-> "again", ret |-> cur]
    ELSE IF safe_atou(p) >= 0
         THEN IF safe_atou(p) = 0 \/ safe_atou(p) > Len(l)
              THEN [k |-> "again", ret |-> cur]
              ELSE [k |-> "return", ret |-> l[safe_atou(p)]]
    ELSE IF ~is_valid THEN [k |-> "again", ret |-> cur]
    ELSE [k |-> "return", ret |-> p]

(***************************************************************************)
(* Building blocks of the steps.                                           *)
(***************************************************************************)
credVars == <<hp, pw1, tmp, idx, lock>>
runVars == <<arg0, runNo, fs0, given>>

\* status: "running", "ok", "fail" (r < 0) or "crash"; step: the step that
\* ended the run; at: the place in that step
Result(status, step, at) == [status |-> status, step |-> step, at |-> at]

\* The step returned 0 and run() goes on with the next one
StepOk(p, next) == pc' = [pc EXCEPT ![p] = next] /\ UNCHANGED ret

\* Variant of the driver that goes on to the last step after a failed step
Finish_GoesOn(p, status, step) ==
    /\ pc' = [pc EXCEPT ![p] = IF status = "fail" /\ step \notin {"parse_argv", "killswitch",
                                                                    "kernel_cmdline"}
                               THEN "kernel_cmdline" ELSE "exit"]
    /\ ret' = [ret EXCEPT ![p] = Result(status, step, pc[p])]

\* run() returns: 0 ("ok"), r < 0 ("fail"), or the process dies ("crash")
Finish(p, status, step) ==
    /\ pc' = [pc EXCEPT ![p] = "exit"]
    /\ ret' = [ret EXCEPT ![p] = Result(status, step, pc[p])]

StepFail(p, step) == Finish(p, "fail", step)

\* the step returns the error errno of a system call
StepFailErrno(p, step, errno) ==
    /\ pc' = [pc EXCEPT ![p] = "exit"]
    /\ ret' = [ret EXCEPT ![p] = Result("fail", step, errno)]

NoWrite == UNCHANGED <<fs, touched>>

\* The destination f is created or replaced with content d
DoWrite(p, f, d) ==
    /\ fs' = [fs EXCEPT ![f] = File(d, "0644")]
    /\ touched' = [touched EXCEPT ![p] = @ \cup {f}]

Commit(p, a, e, u) ==
    /\ arg' = [arg EXCEPT ![p] = a]
    /\ env' = e
    /\ ui' = [ui EXCEPT ![p] = u]

\* Variant without the static flag: the banner is printed at every call
print_welcome_EveryTime(u) ==
    [u EXCEPT !.done = TRUE, !.banners = IF @ < 2 THEN @ + 1 ELSE @]

\* print_welcome(), firstboot.c:82-112, followed by a question to the operator
print_welcome(u) ==
    IF u.done THEN u
    ELSE [u EXCEPT !.done = TRUE, !.banners = IF @ < 2 THEN @ + 1 ELSE @]

Asking(u) == [u EXCEPT !.asked = TRUE]

\* ask_string(&p, ...) in prompt_loop(), firstboot.c:171-174: p is the line read
ReadLine(u, line) == [u EXCEPT !.line = line]

\* prompt_loop() returned r < 0, or goes round the loop once more
PromptFail(p, step, line) ==
    /\ StepFail(p, step) /\ NoWrite
    /\ ui' = [ui EXCEPT ![p] = ReadLine(@, line)]
    /\ UNCHANGED <<arg, env>>

PromptAgain(p, line) ==
    /\ ui' = [ui EXCEPT ![p] = ReadLine(@, line)]
    /\ UNCHANGED <<pc, ret, fs, touched, arg, env>>

(***************************************************************************)
(* parse_argv(), firstboot.c:873-1124, and the head of run(), 1126-1142.   *)
(***************************************************************************)
\* one iteration of the getopt_long() loop on the next option of argv
ParseOption(p, U) ==
    /\ pc[p] = "parse"
    /\ UNCHANGED sideVars
    /\ \E o \in U \cup GlobalOptions :
         /\ o \in GlobalOptions \cup given[p]
               \/ Cardinality(given[p] \ GlobalOptions) < MaxOpts
         /\ given' = [given EXCEPT ![p] = @ \cup {o}]
         /\ LET res == ParseOpt(arg[p], o) IN
              /\ arg' = [arg EXCEPT ![p] = res.a]
              /\ IF res.r < 0
                 THEN StepFail(p, "parse_argv")
                 ELSE UNCHANGED <<pc, ret>>
    /\ UNCHANGED <<arg0, runNo, fs0, ui, touched, fs, env, credVars>>

\* argv is exhausted: the checks after the loop; run() returns when r <= 0
ParseArgvEnd(p) ==
    /\ pc[p] = "parse"
    /\ UNCHANGED sideVars
    /\ IF ParseEnd(arg[p]) < 0
       THEN StepFail(p, "parse_argv")
       ELSE StepOk(p, "killswitch")
    /\ arg0' = [arg0 EXCEPT ![p] = arg[p]]
    /\ UNCHANGED <<arg, given, runNo, fs0, ui, touched, fs, env, credVars>>

\* Variant of the kill switch that is read and then ignored
KillSwitch_Ignored(p) ==
    /\ pc[p] = "killswitch"
    /\ UNCHANGED sideVars
    /\ \E k \in {"on", "0", "err"} :
         /\ Consistent(env, "kill", k)
         /\ env' = Rec(env, "kill", k)
         /\ CASE k = "err" -> StepFail(p, "killswitch")
              [] OTHER -> StepOk(p, "locale")
    /\ UNCHANGED <<arg, ui, touched, fs, credVars, runVars>>

\* proc_cmdline_get_bool("systemd.firstboot"), firstboot.c:1138-1142
KillSwitch(p) ==
    /\ pc[p] = "killswitch"
    /\ UNCHANGED sideVars
    /\ \E k \in {"on", "0", "err"} :      \* "on": not set, or set to true
         /\ Consistent(env, "kill", k)
         /\ env' = Rec(env, "kill", k)
         /\ CASE k = "err" -> StepFail(p, "killswitch")
              [] k = "0" -> Finish(p, "ok", "disabled")
              [] OTHER -> StepOk(p, "locale")
    /\ UNCHANGED <<arg, ui, touched, fs, credVars, runVars>>

(***************************************************************************)
(* process_locale(), firstboot.c:274-318, with prompt_locale(), 221-272.   *)
(***************************************************************************)
\* Variant that writes the key of the message locale whenever it is set
LocaleFinish_AlwaysMessages(p, a, e, u) ==
    /\ Commit(p, a, e, u)
    /\ IF ~isempty(a.locale_messages) /\ a.locale = Null
       THEN \* streq(arg_locale_messages, NULL): strcmp() on a null pointer
            \/ Finish(p, "crash", "locale") /\ NoWrite
            \/ \E ok \in BOOLEAN :
                 IF ok THEN /\ DoWrite(p, "locale.conf",
                                       <<"LC_MESSAGES=" \o a.locale_messages>>)
                            /\ StepOk(p, "keymap")
                 ELSE StepFail(p, "locale") /\ NoWrite
       ELSE LET lang == IF ~isempty(a.locale) THEN <<"LANG=" \o a.locale>> ELSE <<>>
                msgs == IF ~isempty(a.locale_messages)
                        THEN <<"LC_MESSAGES=" \o a.locale_messages>> ELSE <<>>
                locales == lang \o msgs
            IN IF Len(locales) = 0
               THEN StepOk(p, "keymap") /\ NoWrite
               ELSE \E ok \in BOOLEAN :
                      IF ok THEN DoWrite(p, "locale.conf", locales) /\ StepOk(p, "keymap")
                      ELSE StepFail(p, "locale") /\ NoWrite

\* firstboot.c:301-317
LocaleFinish(p, a, e, u) ==
    /\ Commit(p, a, e, u)
    /\ IF ~isempty(a.locale_messages) /\ a.locale = Null
       THEN \* streq(arg_locale_messages, NULL): strcmp() on a null pointer
            \/ Finish(p, "crash", "locale") /\ NoWrite
            \/ \E ok \in BOOLEAN :
                 IF ok THEN /\ DoWrite(p, "locale.conf",
                                       <<"LC_MESSAGES=" \o a.locale_messages>>)
                            /\ StepOk(p, "keymap")
                 ELSE StepFail(p, "locale") /\ NoWrite
       ELSE LET lang == IF ~isempty(a.locale) THEN <<"LANG=" \o a.locale>> ELSE <<>>
                msgs == IF ~isempty(a.locale_messages) /\ a.locale_messages # a.locale
                        THEN <<"LC_MESSAGES=" \o a.locale_messages>> ELSE <<>>
                locales == lang \o msgs
            IN IF Len(locales) = 0
               THEN StepOk(p, "keymap") /\ NoWrite
               ELSE \E ok \in BOOLEAN :
                      IF ok THEN DoWrite(p, "locale.conf", locales) /\ StepOk(p, "keymap")
                      ELSE StepFail(p, "locale") /\ NoWrite

\* Variant that selects the only locale of the list also when it is the default
PromptLocale_SelectsDefault(p, a, e) ==
    IF a.locale # Null \/ a.locale_messages # Null \/ ~a.prompt_locale
    THEN LocaleFinish(p, a, e, ui[p])
    ELSE \E tag \in {"err", "empty", "default", "single", "many"} :
           /\ Consistent(e, "get_locales", tag)
           /\ LET e2 == Rec(e, "get_locales", tag) IN
                CASE tag = "err" ->
                       Commit(p, a, e2, ui[p]) /\ StepFail(p, "locale") /\ NoWrite
                  [] tag = "empty" -> LocaleFinish(p, a, e2, ui[p])
                  [] tag \in {"default", "single"} ->
                       LocaleFinish(p, [a EXCEPT !.locale = LocaleList(tag)[1]], e2, ui[p])
                  [] tag = "many" ->
                       /\ Commit(p, a, e2, Asking(print_welcome(ui[p])))
                       /\ StepOk(p, "locale_ask") /\ NoWrite

\* firstboot.c:221-272 up to the first question
PromptLocale(p, a, e) ==
    IF a.locale # Null \/ a.locale_messages # Null \/ ~a.prompt_locale
    THEN LocaleFinish(p, a, e, ui[p])
    ELSE \E tag \in {"err", "empty", "default", "single", "many"} :
           /\ Consistent(e, "get_locales", tag)
           /\ LET e2 == Rec(e, "get_locales", tag) IN
                CASE tag = "err" ->
                       Commit(p, a, e2, ui[p]) /\ StepFail(p, "locale") /\ NoWrite
                  [] tag \in {"empty", "default"} -> LocaleFinish(p, a, e2, ui[p])
                  [] tag = "single" ->
                       LocaleFinish(p, [a EXCEPT !.locale = LocaleList(tag)[1]], e2, ui[p])
                  [] tag = "many" ->
                       /\ Commit(p, a, e2, Asking(print_welcome(ui[p])))
                       /\ StepOk(p, "locale_ask") /\ NoWrite

ProcessLocale(p) ==
    /\ pc[p] = "locale"
    /\ UNCHANGED sideVars
    /\ UNCHANGED <<credVars, runVars>>
    /\ LET a == arg[p]
           skip == laccess("locale.conf") /\ ~a.force
           copy == a.copy_locale /\ a.root
       IN \/ skip /\ StepOk(p, "keymap") /\ NoWrite /\ UNCHANGED <<arg, env, ui>>
          \/ /\ ~skip /\ copy
             /\ \E r \in {"ok", "EIO"} :
                  /\ Consistent(env, "host_locale", r)
                  /\ Commit(p, a, Rec(env, "host_locale", r), ui[p])
                  /\ IF r = "ok"
                     THEN DoWrite(p, "locale.conf", HostLocaleConf) /\ StepOk(p, "keymap")
                     ELSE StepFail(p, "locale") /\ NoWrite
          \/ /\ ~skip
             /\ copy => Consistent(env, "host_locale", "ENOENT")
             /\ PromptLocale(p, a, IF copy THEN Rec(env, "host_locale", "ENOENT") ELSE env)

LocaleLines == {"", "list", "0", "2", "3", "fr_FR", "xx_XX", ReadError}

\* one line answered to "Please enter system locale name or number"
LocaleAsk(p) ==
    /\ pc[p] = "locale_ask"
    /\ UNCHANGED sideVars
    /\ UNCHANGED <<credVars, runVars>>
    /\ \E line \in LocaleLines :
         LET a == arg[p]
             res == prompt_loop(line, LocaleList(env["get_locales"]),
                                locale_is_ok(a, line), a.locale)
             a1 == [a EXCEPT !.locale = res.ret]
         IN CASE res.k = "fail" ->
                    PromptFail(p, "locale", line)
              [] res.k = "again" -> PromptAgain(p, line)
              [] res.k = "return" ->
                    /\ Consistent(env, "ans_locale", line)
                    /\ IF isempty(a1.locale)
                       THEN LocaleFinish(p, a1, Rec(env, "ans_locale", line), ReadLine(ui[p], line))
                       ELSE /\ Commit(p, a1, Rec(env, "ans_locale", line), ReadLine(ui[p], line))
                            /\ StepOk(p, "locale_ask_messages") /\ NoWrite

\* one line answered to "Please enter system message locale name or number"
LocaleAskMessages(p) ==
    /\ pc[p] = "locale_ask_messages"
    /\ UNCHANGED sideVars
    /\ UNCHANGED <<credVars, runVars>>
    /\ \E line \in LocaleLines :
         LET a == arg[p]
             res == prompt_loop(line, LocaleList(env["get_locales"]),
                                locale_is_ok(a, line), a.locale_messages)
             \* streq_ptr(arg_locale, arg_locale_messages), firstboot.c:267
             a1 == [a EXCEPT !.locale_messages =
                        IF res.ret = a.locale THEN Null ELSE res.ret]
         IN CASE res.k = "fail" ->
                    PromptFail(p, "locale", line)
              [] res.k = "again" -> PromptAgain(p, line)
              [] res.k = "return" ->
                    /\ Consistent(env, "ans_messages", line)
                    /\ LocaleFinish(p, a1, Rec(env, "ans_messages", line), ReadLine(ui[p], line))

(***************************************************************************)
(* process_keymap(), firstboot.c:342-385, with prompt_keymap(), 320-340.   *)
(***************************************************************************)
\* firstboot.c:370-384
KeymapFinish(p, a, e, u) ==
    /\ Commit(p, a, e, u)
    /\ IF isempty(a.keymap)
       THEN StepOk(p, "timezone") /\ NoWrite
       ELSE \E ok \in BOOLEAN :
              IF ok THEN /\ DoWrite(p, "vconsole.conf", <<"KEYMAP=" \o a.keymap>>)
                         /\ StepOk(p, "timezone")
              ELSE StepFail(p, "keymap") /\ NoWrite

\* firstboot.c:320-340 up to the question, and 364-368
PromptKeymap(p, a, e) ==
    IF a.keymap # Null \/ ~a.prompt_keymap
    THEN KeymapFinish(p, a, e, ui[p])
    ELSE \E r \in {"ok", "ENOENT", "err"} :
           /\ Consistent(e, "get_keymaps", r)
           /\ LET e2 == Rec(e, "get_keymaps", r) IN
                CASE r = "err" ->
                       Commit(p, a, e2, ui[p]) /\ StepFail(p, "keymap") /\ NoWrite
                  [] r = "ENOENT" ->
                       Commit(p, a, e2, ui[p]) /\ StepOk(p, "timezone") /\ NoWrite
                  [] r = "ok" ->
                       /\ Commit(p, a, e2, Asking(print_welcome(ui[p])))
                       /\ StepOk(p, "keymap_ask") /\ NoWrite

ProcessKeymap(p) ==
    /\ pc[p] = "keymap"
    /\ UNCHANGED sideVars
    /\ UNCHANGED <<credVars, runVars>>
    /\ LET a == arg[p]
           skip == laccess("vconsole.conf") /\ ~a.force
           copy == a.copy_keymap /\ a.root
       IN \/ skip /\ StepOk(p, "timezone") /\ NoWrite /\ UNCHANGED <<arg, env, ui>>
          \/ /\ ~skip /\ copy
             /\ \E r \in {"ok", "EIO"} :
                  /\ Consistent(env, "host_vconsole", r)
                  /\ Commit(p, a, Rec(env, "host_vconsole", r), ui[p])
                  /\ IF r = "ok"
                     THEN /\ DoWrite(p, "vconsole.conf", HostVconsoleConf)
                          /\ StepOk(p, "timezone")
                     ELSE StepFail(p, "keymap") /\ NoWrite
          \/ /\ ~skip
             /\ copy => Consistent(env, "host_vconsole", "ENOENT")
             /\ PromptKeymap(p, a, IF copy THEN Rec(env, "host_vconsole", "ENOENT") ELSE env)

KeymapLines == {"", "list", "1", "3", "us", "bad keymap", ReadError}

\* one line answered to "Please enter system keymap name or number"
KeymapAsk(p) ==
    /\ pc[p] = "keymap_ask"
    /\ UNCHANGED sideVars
    /\ UNCHANGED <<credVars, runVars>>
    /\ \E line \in KeymapLines :
         LET a == arg[p]
             res == prompt_loop(line, KeymapList, keymap_is_valid(line), a.keymap)
         IN CASE res.k = "fail" ->
                    PromptFail(p, "keymap", line)
              [] res.k = "again" -> PromptAgain(p, line)
              [] res.k = "return" ->
                    /\ Consistent(env, "ans_keymap", line)
                    /\ KeymapFinish(p, [a EXCEPT !.keymap = res.ret],
                                    Rec(env, "ans_keymap", line), ReadLine(ui[p], line))

(***************************************************************************)
(* process_timezone(), firstboot.c:415-455, with prompt_timezone(), 391-413*)
(***************************************************************************)
\* symlink(target, etc_localtime): EEXIST when the path exists
Symlink(p, target, next) ==
    IF laccess("localtime")
    THEN StepFailErrno(p, "timezone", "EEXIST") /\ NoWrite
    ELSE \E ok \in BOOLEAN :
           IF ok THEN /\ fs' = [fs EXCEPT !["localtime"] = File(target, "0777")]
                      /\ touched' = [touched EXCEPT ![p] = @ \cup {"localtime"}]
                      /\ StepOk(p, next)
           ELSE StepFail(p, "timezone") /\ NoWrite

\* firstboot.c:444-454
TimezoneFinish(p, a, e, u) ==
    /\ Commit(p, a, e, u)
    /\ IF isempty(a.timezone)
       THEN StepOk(p, "hostname") /\ NoWrite
       ELSE Symlink(p, "../usr/share/zoneinfo/" \o a.timezone, "hostname")

\* firstboot.c:391-413 up to the question
PromptTimezone(p, a, e) ==
    IF a.timezone # Null \/ ~a.prompt_timezone
    THEN TimezoneFinish(p, a, e, ui[p])
    ELSE \E r \in {"ok", "err"} :
           /\ Consistent(e, "get_timezones", r)
           /\ LET e2 == Rec(e, "get_timezones", r) IN
                IF r = "err"
                THEN Commit(p, a, e2, ui[p]) /\ StepFail(p, "timezone") /\ NoWrite
                ELSE /\ Commit(p, a, e2, Asking(print_welcome(ui[p])))
                     /\ StepOk(p, "timezone_ask") /\ NoWrite

ProcessTimezone(p) ==
    /\ pc[p] = "timezone"
    /\ UNCHANGED sideVars
    /\ UNCHANGED <<credVars, runVars>>
    /\ LET a == arg[p]
           skip == laccess("localtime") /\ ~a.force
           copy == a.copy_timezone /\ a.root
       IN \/ skip /\ StepOk(p, "hostname") /\ NoWrite /\ UNCHANGED <<arg, env, ui>>
          \/ /\ ~skip /\ copy
             /\ \E r \in {"ok", "EINVAL"} :
                  /\ Consistent(env, "host_localtime", r)
                  /\ Commit(p, a, Rec(env, "host_localtime", r), ui[p])
                  /\ IF r = "ok"
                     THEN Symlink(p, HostLocaltime, "hostname")
                     ELSE StepFail(p, "timezone") /\ NoWrite
          \/ /\ ~skip
             /\ copy => Consistent(env, "host_localtime", "ENOENT")
             /\ PromptTimezone(p, a,
                               IF copy THEN Rec(env, "host_localtime", "ENOENT") ELSE env)

TimezoneLines == {"", "list", "2", "3", "4", "Europe/Berlin", "Nowhere", ReadError}

\* one line answered to "Please enter timezone name or number"
TimezoneAsk(p) ==
    /\ pc[p] = "timezone_ask"
    /\ UNCHANGED sideVars
    /\ UNCHANGED <<credVars, runVars>>
    /\ \E line \in TimezoneLines :
         LET a == arg[p]
             res == prompt_loop(line, TimezoneList, timezone_is_valid(line), a.timezone)
         IN CASE res.k = "fail" ->
                    PromptFail(p, "timezone", line)
              [] res.k = "again" -> PromptAgain(p, line)
              [] res.k = "return" ->
                    /\ Consistent(env, "ans_timezone", line)
                    /\ TimezoneFinish(p, [a EXCEPT !.timezone = res.ret],
                                      Rec(env, "ans_timezone", line), ReadLine(ui[p], line))

(***************************************************************************)
(* process_hostname(), firstboot.c:495-518, with prompt_hostname(), 457-493*)
(***************************************************************************)
\* write_string_file(path, value, CREATE|SYNC|MKDIR_0755[|ATOMIC])
WriteStringFile(p, f, value, step, next) ==
    \E ok \in BOOLEAN :
      IF ok THEN DoWrite(p, f, value) /\ StepOk(p, next)
      ELSE StepFail(p, step) /\ NoWrite

\* Variant in which the step of the hostname also stores it as machine id
HostnameFinish_WritesMachineId(p, a, e, u) ==
    /\ Commit(p, a, e, u)
    /\ IF isempty(a.hostname)
       THEN StepOk(p, "machine_id") /\ NoWrite
       ELSE /\ fs' = [fs EXCEPT !["hostname"] = File(a.hostname, "0644"),
                                !["machine-id"] = File(a.hostname, "0644")]
            /\ touched' = [touched EXCEPT ![p] = @ \cup {"hostname"}]
            /\ StepOk(p, "machine_id")

\* firstboot.c:507-517
HostnameFinish(p, a, e, u) ==
    /\ Commit(p, a, e, u)
    /\ IF isempty(a.hostname)
       THEN StepOk(p, "machine_id") /\ NoWrite
       ELSE WriteStringFile(p, "hostname", a.hostname, "hostname", "machine_id")

ProcessHostname(p) ==
    /\ pc[p] = "hostname"
    /\ UNCHANGED sideVars
    /\ UNCHANGED <<credVars, runVars>>
    /\ LET a == arg[p] IN
         IF laccess("hostname") /\ ~a.force
         THEN StepOk(p, "machine_id") /\ NoWrite /\ UNCHANGED <<arg, env, ui>>
         ELSE IF a.hostname # Null \/ ~a.prompt_hostname
         THEN HostnameFinish(p, a, env, ui[p])
         ELSE /\ Commit(p, a, env, Asking(print_welcome(ui[p])))
              /\ StepOk(p, "hostname_ask") /\ NoWrite

HostnameLines == {"", "host.", "-bad-", ReadError}

\* one pass of the loop of prompt_hostname(), firstboot.c:469-490
HostnameAsk(p) ==
    /\ pc[p] = "hostname_ask"
    /\ UNCHANGED sideVars
    /\ UNCHANGED <<credVars, runVars>>
    /\ \E h \in HostnameLines :
         LET a == arg[p] IN
           CASE h = ReadError -> PromptFail(p, "hostname", h)
             [] h # ReadError /\ isempty(h) ->
                  /\ Consistent(env, "ans_hostname", h)
                  /\ HostnameFinish(p, a, Rec(env, "ans_hostname", h), ReadLine(ui[p], h))
             [] h # ReadError /\ ~isempty(h) /\ ~hostname_is_valid(h) -> PromptAgain(p, h)
             [] OTHER ->
                  /\ Consistent(env, "ans_hostname", h)
                  /\ HostnameFinish(p, [a EXCEPT !.hostname = hostname_cleanup(h)],
                                    Rec(env, "ans_hostname", h), ReadLine(ui[p], h))

(***************************************************************************)
(* process_machine_id(), firstboot.c:520-540.                              *)
(***************************************************************************)
\* Variant that generates an identifier when none was asked for
ProcessMachineId_Generates(p) ==
    /\ pc[p] = "machine_id"
    /\ UNCHANGED sideVars
    /\ UNCHANGED <<credVars, runVars, arg, env, ui>>
    /\ LET a == arg[p] IN
         IF laccess("machine-id") /\ ~a.force
         THEN StepOk(p, "root_password") /\ NoWrite
         ELSE WriteStringFile(p, "machine-id",
                              IF a.machine_id = Null THEN RandomMachineId ELSE a.machine_id,
                              "machine_id", "root_password")

ProcessMachineId(p) ==
    /\ pc[p] = "machine_id"
    /\ UNCHANGED sideVars
    /\ UNCHANGED <<credVars, runVars, arg, env, ui>>
    /\ LET a == arg[p] IN
         IF laccess("machine-id") /\ ~a.force
         THEN StepOk(p, "root_password") /\ NoWrite
         ELSE IF a.machine_id = Null
         THEN StepOk(p, "root_password") /\ NoWrite
         ELSE WriteStringFile(p, "machine-id", a.machine_id, "machine_id", "root_password")

(***************************************************************************)
(* process_kernel_cmdline(), firstboot.c:808-827.                          *)
(***************************************************************************)
ProcessKernelCmdline(p) ==
    /\ pc[p] = "kernel_cmdline"
    /\ UNCHANGED sideVars
    /\ UNCHANGED <<credVars, runVars, arg, env, ui>>
    /\ LET a == arg[p] IN
         IF laccess("cmdline") /\ ~a.force
         THEN Finish(p, "ok", "done") /\ NoWrite
         ELSE IF a.kernel_cmdline = Null
         THEN Finish(p, "ok", "done") /\ NoWrite
         ELSE \E ok \in BOOLEAN :
                IF ok THEN /\ DoWrite(p, "cmdline", a.kernel_cmdline)
                           /\ Finish(p, "ok", "done")
                ELSE StepFail(p, "kernel_cmdline") /\ NoWrite

(***************************************************************************)
(* write_root_passwd(), firstboot.c:592-653, and write_root_shadow(),      *)
(* 655-720: k is "passwd" or "shadow"; the password is hp[p].              *)
(***************************************************************************)
TmpNone ==
    [exists |-> FALSE, data |-> <<>>, mode |-> "0000", of |-> "none",
     orig |-> <<>>, synced |-> FALSE]

At(k, s) == k \o "_" \o s

\* Variant in which the descriptor of the lock stays open after the step
ReleaseLock_StaysOpen(p) == lock' = lock

\* _cleanup_close_ int lock: closing the descriptor drops the lock
ReleaseLock(p) == lock' = IF lock = p THEN 0 ELSE lock

\* Variant of the failure path that unlinks the table instead of the
\* temporary file
WriterFail_UnlinksTable(p) ==
    /\ fs' = IF tmp[p].exists THEN [fs EXCEPT ![tmp[p].of] = Absent(tmp[p].of)] ELSE fs
    /\ tmp' = [tmp EXCEPT ![p] = TmpNone]
    /\ ReleaseLock(p)
    /\ StepFail(p, "root_password")
    /\ hp' = [hp EXCEPT ![p] = Null]
    /\ UNCHANGED <<touched, idx>>

\* the writer returns r < 0: unlink_and_freep() removes the temporary file, and
\* process_root_password() returns the error, firstboot.c:746-747, 768-769, 801-802
WriterFail(p) ==
    /\ tmp' = [tmp EXCEPT ![p] = TmpNone]
    /\ ReleaseLock(p)
    /\ StepFail(p, "root_password")
    /\ hp' = [hp EXCEPT ![p] = Null]
    /\ UNCHANGED <<fs, touched, idx>>

\* fopen_temporary_label(), firstboot.c:597 and 660
WriterOpen(p, k) ==
    /\ pc[p] = At(k, "open")
    /\ UNCHANGED sideVars
    /\ \/ WriterFail(p)
       \/ /\ tmp' = [tmp EXCEPT ![p] = [TmpNone EXCEPT !.exists = TRUE, !.mode = "0600",
                                                        !.of = k]]
          /\ StepOk(p, At(k, "orig"))
          /\ UNCHANGED <<fs, touched, idx, lock, hp>>
    /\ UNCHANGED <<arg, ui, pw1, env, runVars>>

\* Variant that leaves a new temporary file with the mode it was created with
WriterOriginal_NoFchmod(p, k) ==
    /\ pc[p] = At(k, "orig")
    /\ UNCHANGED sideVars
    /\ \/ WriterFail(p)
       \/ /\ fs[k].exists
          /\ tmp' = [tmp EXCEPT ![p].mode = fs[k].mode, ![p].orig = fs[k].data]
          /\ idx' = [idx EXCEPT ![p] = 1]
          /\ StepOk(p, At(k, "loop"))
          /\ UNCHANGED <<fs, touched, lock, hp>>
       \/ /\ ~fs[k].exists
          /\ UNCHANGED tmp
          /\ StepOk(p, At(k, "synth"))
          /\ UNCHANGED <<fs, touched, idx, lock, hp>>
    /\ UNCHANGED <<arg, ui, pw1, env, runVars>>

\* fopen(path, "re"), then sync_rights() or fchmod(0000), firstboot.c:601-607,
\* 632-637 and 664-670, 699-704
WriterOriginal(p, k) ==
    /\ pc[p] = At(k, "orig")
    /\ UNCHANGED sideVars
    /\ \/ WriterFail(p)
       \/ /\ fs[k].exists
          /\ tmp' = [tmp EXCEPT ![p].mode = fs[k].mode, ![p].orig = fs[k].data]
          /\ idx' = [idx EXCEPT ![p] = 1]
          /\ StepOk(p, At(k, "loop"))
          /\ UNCHANGED <<fs, touched, lock, hp>>
       \/ /\ ~fs[k].exists
          /\ tmp' = [tmp EXCEPT ![p].mode = "0000"]
          /\ StepOk(p, At(k, "synth"))
          /\ UNCHANGED <<fs, touched, idx, lock, hp>>
    /\ UNCHANGED <<arg, ui, pw1, env, runVars>>

\* one pass of the while loop, firstboot.c:609-619 and 672-684
WriterLoop(p, k) ==
    /\ pc[p] = At(k, "loop")
    /\ UNCHANGED sideVars
    /\ \/ WriterFail(p)
       \/ /\ idx[p] <= Len(tmp[p].orig)
          /\ tmp' = [tmp EXCEPT ![p].data = Append(@, Merge(k, tmp[p].orig[idx[p]], hp[p]))]
          /\ idx' = [idx EXCEPT ![p] = @ + 1]
          /\ UNCHANGED <<pc, ret, fs, touched, lock, hp>>
       \/ /\ idx[p] > Len(tmp[p].orig)
          /\ idx' = [idx EXCEPT ![p] = 0]
          /\ StepOk(p, At(k, "flush"))
          /\ UNCHANGED <<tmp, fs, touched, lock, hp>>
    /\ UNCHANGED <<arg, ui, pw1, env, runVars>>

\* putpwent_sane(&root) / putspent_sane(&root), firstboot.c:639-641 and 706-708
WriterSynth(p, k) ==
    /\ pc[p] = At(k, "synth")
    /\ UNCHANGED sideVars
    /\ \/ WriterFail(p)
       \/ /\ tmp' = [tmp EXCEPT ![p].data = <<Synth(k, hp[p])>>]
          /\ StepOk(p, At(k, "flush"))
          /\ UNCHANGED <<fs, touched, idx, lock, hp>>
    /\ UNCHANGED <<arg, ui, pw1, env, runVars>>

\* Variant that goes on to the rename when the flush or the sync failed
WriterFlush_IgnoresError(p, k) ==
    /\ pc[p] = At(k, "flush")
    /\ UNCHANGED sideVars
    /\ \/ /\ UNCHANGED tmp
          /\ StepOk(p, At(k, "rename"))
          /\ UNCHANGED <<fs, touched, idx, lock, hp>>
       \/ /\ tmp' = [tmp EXCEPT ![p].synced = TRUE]
          /\ StepOk(p, At(k, "rename"))
          /\ UNCHANGED <<fs, touched, idx, lock, hp>>
    /\ UNCHANGED <<arg, ui, pw1, env, runVars>>

\* fflush_sync_and_check(), firstboot.c:644-646 and 711-713
WriterFlush(p, k) ==
    /\ pc[p] = At(k, "flush")
    /\ UNCHANGED sideVars
    /\ \/ WriterFail(p)
       \/ /\ tmp' = [tmp EXCEPT ![p].synced = TRUE]
          /\ StepOk(p, At(k, "rename"))
          /\ UNCHANGED <<fs, touched, idx, lock, hp>>
    /\ UNCHANGED <<arg, ui, pw1, env, runVars>>

\* Variant in which the cleanup on return unlinks the renamed table
WriterRename_CleanupUnlinksTable(p, k) ==
    /\ pc[p] = At(k, "rename")
    /\ UNCHANGED sideVars
    /\ \/ WriterFail(p)
       \/ /\ fs' = [fs EXCEPT ![k] = Absent(k)]
          /\ touched' = [touched EXCEPT ![p] = @ \cup {k}]
          /\ tmp' = [tmp EXCEPT ![p] = TmpNone]
          /\ ReleaseLock(p)
          /\ hp' = [hp EXCEPT ![p] = Null]
          /\ StepOk(p, "kernel_cmdline")
          /\ UNCHANGED idx
    /\ UNCHANGED <<arg, ui, pw1, env, runVars>>

\* rename_and_apply_smack_floor_label() and the return to run(),
\* firstboot.c:648-652, 749-751 and 715-719, 771-772, 804-805
WriterRename(p, k) ==
    /\ pc[p] = At(k, "rename")
    /\ UNCHANGED sideVars
    /\ \/ WriterFail(p)
       \/ /\ fs' = [fs EXCEPT ![k] = File(tmp[p].data, tmp[p].mode)]
          /\ touched' = [touched EXCEPT ![p] = @ \cup {k}]
          /\ tmp' = [tmp EXCEPT ![p] = TmpNone]
          /\ ReleaseLock(p)
          /\ hp' = [hp EXCEPT ![p] = Null]
          /\ StepOk(p, "kernel_cmdline")
          /\ UNCHANGED idx
    /\ UNCHANGED <<arg, ui, pw1, env, runVars>>

(***************************************************************************)
(* process_root_password(), firstboot.c:722-806, with                      *)
(* prompt_root_password(), 542-590.                                        *)
(***************************************************************************)
\* firstboot.c:729-733
ProcessRootPassword(p) ==
    /\ pc[p] = "root_password"
    /\ UNCHANGED sideVars
    /\ IF laccess("shadow") /\ ~arg[p].force
       THEN StepOk(p, "kernel_cmdline")
       ELSE StepOk(p, "take_lock")
    /\ UNCHANGED <<arg, ui, env, fs, touched, credVars, runVars>>

\* Variant that stores the password as given, hashed or not
HashPassword_Verbatim(p, a, e, u) ==
    /\ Commit(p, a, e, u)
    /\ UNCHANGED <<fs, touched, tmp, idx>>
    /\ IF a.root_password = Null
       THEN StepOk(p, "kernel_cmdline") /\ ReleaseLock(p) /\ UNCHANGED hp
       ELSE /\ hp' = [hp EXCEPT ![p] = a.root_password]
            /\ StepOk(p, At("shadow", "open")) /\ lock' = p

\* firstboot.c:780-798: the password is known (or still unset)
HashPassword(p, a, e, u) ==
    /\ Commit(p, a, e, u)
    /\ UNCHANGED <<fs, touched, tmp, idx>>
    /\ IF a.root_password = Null
       THEN StepOk(p, "kernel_cmdline") /\ ReleaseLock(p) /\ UNCHANGED hp
       ELSE IF a.root_password_is_hashed
       THEN /\ hp' = [hp EXCEPT ![p] = a.root_password]
            /\ StepOk(p, At("shadow", "open")) /\ lock' = p
       ELSE \/ StepFail(p, "root_password") /\ ReleaseLock(p) /\ UNCHANGED hp
            \/ \E salt \in Salts :
                 /\ hp' = [hp EXCEPT ![p] = crypt_r(a.root_password, salt)]
                 /\ StepOk(p, At("shadow", "open")) /\ lock' = p

\* take_etc_passwd_lock() returned the lock; firstboot.c:739-776 up to the
\* next blocking call
LockedRootPassword(p) ==
    LET a == arg[p] copy == a.copy_root_password /\ a.root IN
      \/ /\ a.delete_root_password
         /\ hp' = [hp EXCEPT ![p] = ""]
         /\ StepOk(p, At("passwd", "open")) /\ lock' = p
         /\ UNCHANGED <<arg, env, ui, fs, touched, tmp, idx, pw1>>
      \/ /\ ~a.delete_root_password /\ copy
         \* getspnam("root"): the entry; NULL with errno ENOENT; NULL with errno
         \* left 0 ("none", no such entry); NULL with another errno
         /\ \E r \in {"found", "none", "EACCES"} :
              /\ Consistent(env, "getspnam", r)
              /\ Commit(p, a, Rec(env, "getspnam", r), ui[p])
              /\ UNCHANGED <<fs, touched, tmp, idx, pw1>>
              /\ IF r = "found"
                 THEN /\ hp' = [hp EXCEPT ![p] = HostRootHash]
                      /\ StepOk(p, At("shadow", "open")) /\ lock' = p
                 ELSE StepFail(p, "root_password") /\ ReleaseLock(p) /\ UNCHANGED hp
      \/ /\ ~a.delete_root_password
         /\ copy => Consistent(env, "getspnam", "ENOENT")
         /\ LET e == IF copy THEN Rec(env, "getspnam", "ENOENT") ELSE env IN
              IF a.root_password # Null \/ ~a.prompt_root_password
              THEN HashPassword(p, a, e, ui[p]) /\ UNCHANGED pw1
              ELSE /\ Commit(p, a, e, Asking(print_welcome(ui[p])))
                   /\ StepOk(p, "ask_password") /\ lock' = p
                   /\ UNCHANGED <<fs, touched, tmp, idx, pw1, hp>>

\* Variant that goes on without waiting for the lock to be free
TakeLock_NoWait(p) ==
    /\ pc[p] = "take_lock"
    /\ UNCHANGED sideVars
    /\ \/ /\ StepFail(p, "root_password")
          /\ UNCHANGED <<arg, env, ui, fs, touched, credVars>>
       \/ LockedRootPassword(p)
    /\ UNCHANGED runVars

\* take_etc_passwd_lock(arg_root), firstboot.c:735-737: waits until the lock is free
TakeLock(p) ==
    /\ pc[p] = "take_lock"
    /\ UNCHANGED sideVars
    /\ \/ /\ StepFail(p, "root_password")
          /\ UNCHANGED <<arg, env, ui, fs, touched, credVars>>
       \/ lock = 0 /\ LockedRootPassword(p)
    /\ UNCHANGED runVars

PasswordLines == {"", "hunter2", "letmein", ReadError}

\* ask_password_tty(msg1), firstboot.c:561-571
AskPassword(p) ==
    /\ pc[p] = "ask_password"
    /\ UNCHANGED sideVars
    /\ UNCHANGED runVars
    /\ \E a \in PasswordLines :
         CASE a = ReadError ->
                /\ PromptFail(p, "root_password", a) /\ ReleaseLock(p)
                /\ UNCHANGED <<hp, pw1, tmp, idx>>
           [] a # ReadError /\ isempty(a) ->
                /\ Consistent(env, "ans_password", a)
                /\ HashPassword(p, arg[p], Rec(env, "ans_password", a), ReadLine(ui[p], a))
                /\ UNCHANGED pw1
           [] OTHER ->
                /\ pw1' = [pw1 EXCEPT ![p] = a]
                /\ ui' = [ui EXCEPT ![p] = ReadLine(@, a)]
                /\ StepOk(p, "ask_password_again")
                /\ UNCHANGED <<arg, env, fs, touched, hp, tmp, idx, lock>>

\* Variant in which a confirmation that differs ends the run with an error
AskPasswordAgain_MismatchFatal(p) ==
    /\ pc[p] = "ask_password_again"
    /\ UNCHANGED sideVars
    /\ UNCHANGED runVars
    /\ \E b \in PasswordLines :
         CASE b = ReadError ->
                /\ PromptFail(p, "root_password", b) /\ ReleaseLock(p)
                /\ pw1' = [pw1 EXCEPT ![p] = Null]
                /\ UNCHANGED <<hp, tmp, idx>>
           [] b # ReadError /\ b # pw1[p] ->
                /\ PromptFail(p, "root_password", b) /\ ReleaseLock(p)
                /\ pw1' = [pw1 EXCEPT ![p] = Null]
                /\ UNCHANGED <<hp, tmp, idx>>
           [] OTHER ->
                /\ Consistent(env, "ans_password", b)
                /\ pw1' = [pw1 EXCEPT ![p] = Null]
                /\ HashPassword(p, [arg[p] EXCEPT !.root_password = pw1[p]],
                                Rec(env, "ans_password", b), ReadLine(ui[p], b))

\* ask_password_tty(msg2), firstboot.c:573-586
AskPasswordAgain(p) ==
    /\ pc[p] = "ask_password_again"
    /\ UNCHANGED sideVars
    /\ UNCHANGED runVars
    /\ \E b \in PasswordLines :
         CASE b = ReadError ->
                /\ PromptFail(p, "root_password", b) /\ ReleaseLock(p)
                /\ pw1' = [pw1 EXCEPT ![p] = Null]
                /\ UNCHANGED <<hp, tmp, idx>>
           [] b # ReadError /\ b # pw1[p] ->
                /\ pw1' = [pw1 EXCEPT ![p] = Null]
                /\ ui' = [ui EXCEPT ![p] = ReadLine(@, b)]
                /\ StepOk(p, "ask_password")
                /\ UNCHANGED <<arg, env, fs, touched, hp, tmp, idx, lock>>
           [] OTHER ->
                /\ Consistent(env, "ans_password", b)
                /\ pw1' = [pw1 EXCEPT ![p] = Null]
                /\ HashPassword(p, [arg[p] EXCEPT !.root_password = pw1[p]],
                                Rec(env, "ans_password", b), ReadLine(ui[p], b))

(***************************************************************************)
(* Initial states.                                                         *)
(***************************************************************************)
UiInit == [done |-> FALSE, banners |-> 0, asked |-> FALSE, line |-> ""]

\* A table of the target root as the driver may find it
SomeTables(k) ==
    IF k = "passwd"
    THEN [ root |-> << PwRec("root", "x", 0, "root", "/root", "/bin/bash"),
                       PwRec("alice", "x", 1000, "Alice", "/home/alice", "/bin/sh") >>,
           noroot |-> << PwRec("alice", "x", 1000, "Alice", "/home/alice", "/bin/sh") >> ]
    ELSE [ root |-> << SpRec("root", "$6$oldhash", 18000, 99999),
                       SpRec("alice", "$6$alicehash", 18100, 90) >>,
           noroot |-> << SpRec("alice", "$6$alicehash", 18100, 90) >> ]

\* Target roots the driver is run on: nothing provisioned yet, everything
\* provisioned, or a single destination left over
PreExisting == {{}, Dest, {"passwd"}}

TargetRoots ==
    { [f \in Dest |->
          IF f \notin E THEN Absent(f)
          ELSE IF f = "passwd" THEN File(SomeTables(f)[v], "0644")
          ELSE IF f = "shadow" THEN File(SomeTables(f)[v], "0640")
          ELSE File(OldData(f), "0644")] :
      E \in PreExisting, v \in {"root", "noroot"} }

ProcInit(active, at) ==
    /\ pc = [p \in Procs |-> IF p \in active THEN at ELSE "off"]
    /\ runNo = [p \in Procs |-> 1]
    /\ ret = [p \in Procs |-> Result("running", "", "")]
    /\ ui = [p \in Procs |-> UiInit]
    /\ touched = [p \in Procs |-> {}]
    /\ pw1 = [p \in Procs |-> Null]
    /\ idx = [p \in Procs |-> 0]
    /\ given = [p \in Procs |-> {}]
    /\ env = EnvInit

\* One invocation of run() on some target root, before parse_argv()
Init ==
    /\ SideInit
    /\ ProcInit({1}, "parse")
    /\ arg = [p \in Procs |-> ArgInit]
    /\ arg0 = arg
    /\ hp = [p \in Procs |-> Null]
    /\ tmp = [p \in Procs |-> TmpNone]
    /\ lock = 0
    /\ fs \in TargetRoots
    /\ fs0 = fs

(***************************************************************************)
(* The driver, run(), firstboot.c:1126-1173.                               *)
(***************************************************************************)
Step(p) ==
    \/ KillSwitch(p)
    \/ ProcessLocale(p) \/ LocaleAsk(p) \/ LocaleAskMessages(p)
    \/ ProcessKeymap(p) \/ KeymapAsk(p)
    \/ ProcessTimezone(p) \/ TimezoneAsk(p)
    \/ ProcessHostname(p) \/ HostnameAsk(p)
    \/ ProcessMachineId(p)
    \/ ProcessRootPassword(p) \/ TakeLock(p) \/ AskPassword(p) \/ AskPasswordAgain(p)
    \/ \E k \in Tables :
         \/ WriterOpen(p, k) \/ WriterOriginal(p, k) \/ WriterLoop(p, k)
         \/ WriterSynth(p, k) \/ WriterFlush(p, k) \/ WriterRename(p, k)
    \/ ProcessKernelCmdline(p)

Next ==
    \E p \in Procs : ParseOption(p, Options) \/ ParseArgvEnd(p) \/ Step(p)

Spec == Init /\ [][Next]_vars

(***************************************************************************)
(* The driver run twice in succession on the same target root.             *)
(***************************************************************************)
\* a second invocation with the same command line, after the first returned 0
Restart(p) ==
    /\ pc[p] = "exit" /\ ret[p].status = "ok" /\ runNo[p] = 1
    /\ UNCHANGED sideVars
    /\ pc' = [pc EXCEPT ![p] = "killswitch"]
    /\ arg' = [arg EXCEPT ![p] = arg0[p]]
    /\ runNo' = [runNo EXCEPT ![p] = 2]
    /\ ret' = [ret EXCEPT ![p] = Result("running", "", "")]
    /\ ui' = [ui EXCEPT ![p] = UiInit]
    /\ touched' = [touched EXCEPT ![p] = {}]
    /\ fs0' = fs
    /\ UNCHANGED <<arg0, given, fs, env, credVars>>

NextTwice == Next \/ \E p \in Procs : Restart(p)

SpecTwice == Init /\ [][NextTwice]_vars

(***************************************************************************)
(* The two table writers on arbitrary tables: the invocation holds the     *)
(* lock and is about to call write_root_passwd() (--delete-root-password)  *)
(* or write_root_shadow() (a password was given), under --force.           *)
(***************************************************************************)
TableFiles(k, m) == {Absent(k)} \cup {File(t, m) : t \in OldTables(k)}

WriterArgs(k) ==
    IF k = "passwd"
    THEN { [a |-> [ArgInit EXCEPT !.force = TRUE, !.delete_root_password = TRUE],
            hp |-> ""] }
    ELSE { [a |-> [ArgInit EXCEPT !.force = TRUE, !.root_password = "$6$prehashed",
                                  !.root_password_is_hashed = TRUE],
            hp |-> "$6$prehashed"],
           [a |-> [ArgInit EXCEPT !.force = TRUE, !.root_password = "hunter2"],
            hp |-> crypt_r("hunter2", "saltA")] }

InitMerge ==
    /\ SideInit
    /\ \E k \in Tables, other \in {"absent", "root"} :
         /\ ProcInit({1}, At(k, "open"))
         /\ \E w \in WriterArgs(k) :
              /\ arg = [p \in Procs |-> IF p = 1 THEN w.a ELSE ArgInit]
              /\ hp = [p \in Procs |-> IF p = 1 THEN w.hp ELSE Null]
         /\ \E t \in TableFiles(k, IF k = "passwd" THEN "0644" ELSE "0640") :
              fs = [f \in Dest |->
                      IF f = k THEN t
                      ELSE IF f \in Tables /\ other = "root"
                      THEN File(SomeTables(f).root, "0600")
                      ELSE Absent(f)]
    /\ arg0 = arg
    /\ tmp = [p \in Procs |-> TmpNone]
    /\ lock = 1
    /\ fs0 = fs

Writer(p) ==
    \E k \in Tables :
      \/ WriterOpen(p, k) \/ WriterOriginal(p, k) \/ WriterLoop(p, k)
      \/ WriterSynth(p, k) \/ WriterFlush(p, k) \/ WriterRename(p, k)

NextMerge == \E p \in Procs : Writer(p)

SpecMerge == InitMerge /\ [][NextMerge]_vars

(***************************************************************************)
(* Two invocations on the same alternate root (--root), both arrived at    *)
(* process_root_password() (no other setting was requested).               *)
(***************************************************************************)
CredArgs(r) ==
    { a \in { [ArgInit EXCEPT !.root = r, !.force = f,
                              !.root_password = pw.v, !.root_password_is_hashed = pw.h,
                              !.prompt_root_password = pr, !.copy_root_password = cp,
                              !.delete_root_password = d] :
              f \in BOOLEAN, pr \in BOOLEAN, cp \in BOOLEAN, d \in BOOLEAN,
              pw \in { [v |-> Null, h |-> FALSE], [v |-> "hunter2", h |-> FALSE],
                       [v |-> "$6$prehashed", h |-> TRUE] } } :
      ParseEnd(a) = 1 }

InitConc ==
    /\ SideInit
    /\ ProcInit(Procs, "root_password")
    /\ arg \in [Procs -> CredArgs(TRUE)]
    /\ arg0 = arg
    /\ hp = [p \in Procs |-> Null]
    /\ tmp = [p \in Procs |-> TmpNone]
    /\ lock = 0
    /\ \E E \in {{}, {"passwd", "shadow"}} :
         fs = [f \in Dest |->
                 IF f \in E /\ f = "passwd" THEN File(SomeTables(f).root, "0644")
                 ELSE IF f \in E /\ f = "shadow" THEN File(SomeTables(f).root, "0640")
                 ELSE Absent(f)]
    /\ fs0 = fs

NextConc ==
    \E p \in Procs :
      \/ ProcessRootPassword(p) \/ TakeLock(p) \/ AskPassword(p) \/ AskPasswordAgain(p)
      \/ Writer(p)
      \/ ProcessKernelCmdline(p)

SpecConc == InitConc /\ [][NextConc]_vars

(***************************************************************************)
(* Properties of the table writers.                                        *)
(***************************************************************************)
Names(t) == { t[i].name : i \in 1..Len(t) }

OneRecordPerName(t) ==
    \A i, j \in 1..Len(t) : t[i].name = t[j].name => i = j

\* The credentials the invocation with arguments a may store in table k
CredFor(a, k) ==
    IF k = "passwd" THEN {""}
    ELSE (IF a.copy_root_password /\ a.root THEN {HostRootHash} ELSE {})
         \cup (IF a.root_password = Null THEN {}
               ELSE IF a.root_password_is_hashed THEN {a.root_password}
               ELSE { crypt_r(a.root_password, salt) : salt \in Salts })

\* table k was replaced by a writer of process p
Replaced(p, k) == k \in touched[p] /\ fs[k].exists

\* C1: a writer given an existing table of N records, none of them named
\* "root", leaves a table of N + 1 records: the N it read, unchanged and in
\* order, followed by the synthesized root record.
C1_AppendsRoot ==
    \A k \in Tables :
      (Replaced(1, k) /\ fs0[k].exists /\ "root" \notin Names(fs0[k].data)) =>
        /\ Len(fs[k].data) = Len(fs0[k].data) + 1
        /\ SubSeq(fs[k].data, 1, Len(fs0[k].data)) = fs0[k].data
        /\ \E c \in CredFor(arg[1], k) :
             fs[k].data[Len(fs[k].data)] = Synth(k, c)

\* what the code does in the case of C1: the N records, and no root record
C1_Observed ==
    \E k \in Tables :
      /\ Replaced(1, k) /\ fs0[k].exists /\ Len(fs0[k].data) >= 1
      /\ "root" \notin Names(fs0[k].data)
      /\ fs[k].data = fs0[k].data

\* C2: on an existing table with at most one record per name, holding a root
\* record, the writer leaves the same number of records in the same order,
\* every record not named "root" identical, and the root record changed in
\* its password field only (in the shadow table also the last-change day,
\* which becomes today).
C2_MergeKeepsOthers ==
    \A k \in Tables :
      (Replaced(1, k) /\ fs0[k].exists /\ OneRecordPerName(fs0[k].data)
                      /\ "root" \in Names(fs0[k].data)) =>
        /\ Len(fs[k].data) = Len(fs0[k].data)
        /\ \A i \in 1..Len(fs0[k].data) :
             LET old == fs0[k].data[i] new == fs[k].data[i] IN
               IF old.name # "root" THEN new = old
               ELSE \E c \in CredFor(arg[1], k) :
                      new = IF k = "passwd" THEN [old EXCEPT !.cred = c]
                            ELSE [old EXCEPT !.cred = c, !.lstchg = Today]

C2_Witness ==
    \E k \in Tables :
      /\ Replaced(1, k) /\ fs0[k].exists /\ OneRecordPerName(fs0[k].data)
      /\ Len(fs0[k].data) >= 2
      /\ fs0[k].data[2].name = "root"
      /\ fs[k].data[2].cred # fs0[k].data[2].cred
      /\ pc[1] = "kernel_cmdline"

\* C3: when a writer fails after it created its temporary file and before
\* the rename completed, the original table is byte-for-byte what it was
\* (and absent if it was absent), and the temporary file is gone.
C3_FailureKeepsOriginal ==
    \A p \in Procs :
      (ret[p].status = "fail" /\ ret[p].step = "root_password"
         /\ \E k \in Tables :
              ret[p].at \in {At(k, "orig"), At(k, "loop"), At(k, "synth"),
                             At(k, "flush"), At(k, "rename")}) =>
        /\ \A k \in Tables : fs[k] = fs0[k]
        /\ ~tmp[p].exists

C3_Witness ==
    /\ ret[1].status = "fail" /\ ret[1].at = "shadow_loop"
    /\ fs0["shadow"].exists /\ Len(fs0["shadow"].data) >= 2
    /\ fs["shadow"] = fs0["shadow"]

(***************************************************************************)
(* Properties of one run of the driver.                                    *)
(***************************************************************************)
HasRoot(f, creds) ==
    /\ fs[f].exists
    /\ \E i \in 1..Len(fs[f].data) :
         fs[f].data[i].name = "root" /\ fs[f].data[i].cred \in creds

\* the run returned 0 after it went through every step
Completed(p) == pc[p] = "exit" /\ ret[p].status = "ok" /\ ret[p].step = "done"

\* C4: from a target root without password table and without shadow table, a
\* run that sets a plaintext root credential ends with a shadow table of
\* exactly one root record (the hash of the credential, last change today)
\* and a password table of exactly one root record with the placeholder "x".
C4_BothTablesWritten ==
    LET a == arg[1] IN
      (/\ Completed(1)
       /\ ~fs0["passwd"].exists /\ ~fs0["shadow"].exists
       /\ a.root_password # Null /\ ~a.root_password_is_hashed
       /\ ~a.delete_root_password
       /\ ~(a.copy_root_password /\ a.root /\ env["getspnam"] = "found")) =>
        /\ fs["shadow"].exists /\ Len(fs["shadow"].data) = 1
        /\ fs["shadow"].data[1].name = "root"
        /\ fs["shadow"].data[1].cred
             \in { crypt_r(a.root_password, salt) : salt \in Salts }
        /\ fs["shadow"].data[1].lstchg = Today
        /\ fs["passwd"].exists /\ Len(fs["passwd"].data) = 1
        /\ fs["passwd"].data[1].name = "root"
        /\ fs["passwd"].data[1].cred = "x"

\* what the code does in the case of C4: the shadow table, no password table
C4_Observed ==
    /\ Completed(1) /\ arg0[1].root_password = "hunter2"
    /\ ~fs0["passwd"].exists /\ ~fs0["shadow"].exists
    /\ fs["shadow"].exists /\ Len(fs["shadow"].data) = 1
    /\ fs["shadow"].data[1] = SynthShadow(crypt_r("hunter2", "saltA"))
    /\ ~fs["passwd"].exists

\* the step of run() that owns destination f
StepOf(f) ==
    CASE f = "locale.conf" -> "locale"
      [] f = "vconsole.conf" -> "keymap"
      [] f = "localtime" -> "timezone"
      [] f = "hostname" -> "hostname"
      [] f = "machine-id" -> "machine_id"
      [] f \in Tables -> "root_password"
      [] f = "cmdline" -> "kernel_cmdline"

\* C8: without --force, a destination that exists when its step starts is
\* left untouched by the step, and the step returns success.
C8_SkipIfExists ==
    \A f \in Dest :
      (~arg0[1].force /\ fs0[f].exists) =>
        /\ f \notin touched[1]
        /\ fs[f] = fs0[f]
        /\ f # "passwd" => ~(ret[1].status \in {"fail", "crash"} /\ ret[1].step = StepOf(f))

\* what the code does in the case of C8: an existing password table is replaced
C8_Observed ==
    /\ ~arg0[1].force /\ arg0[1].delete_root_password
    /\ fs0["passwd"].exists /\ "passwd" \in touched[1]
    /\ fs["passwd"] # fs0["passwd"]

\* how far the run of p got: the number of the step it is in, or failed in
StepNo(s) ==
    CASE s \in {"parse", "parse_argv", "off", ""} -> 0
      [] s \in {"killswitch", "disabled"} -> 1
      [] s \in {"locale", "locale_ask", "locale_ask_messages"} -> 2
      [] s \in {"keymap", "keymap_ask"} -> 3
      [] s \in {"timezone", "timezone_ask"} -> 4
      [] s \in {"hostname", "hostname_ask"} -> 5
      [] s = "machine_id" -> 6
      [] s \in {"kernel_cmdline"} -> 8
      [] s = "done" -> 9
      [] OTHER -> 7

Past(p, s) ==
    (IF pc[p] = "exit" THEN StepNo(ret[p].step) ELSE StepNo(pc[p])) > StepNo(s)

\* the settings that can be copied from the host
Copyable == {"locale", "keymap", "timezone", "root_password"}

CopyFlag(a, s) ==
    CASE s = "locale" -> a.copy_locale
      [] s = "keymap" -> a.copy_keymap
      [] s = "timezone" -> a.copy_timezone
      [] s = "root_password" -> a.copy_root_password

Explicit(a, s) ==
    CASE s = "locale" -> a.locale # Null
      [] s = "keymap" -> a.keymap # Null
      [] s = "timezone" -> a.timezone # Null
      [] s = "root_password" -> a.root_password # Null

HostQuery(s) ==
    CASE s = "locale" -> "host_locale"
      [] s = "keymap" -> "host_vconsole"
      [] s = "timezone" -> "host_localtime"
      [] s = "root_password" -> "getspnam"

\* the destination of setting s holds the host's value
HoldsHost(s) ==
    CASE s = "locale" -> fs["locale.conf"].exists /\ fs["locale.conf"].data = HostLocaleConf
      [] s = "keymap" ->
             fs["vconsole.conf"].exists /\ fs["vconsole.conf"].data = HostVconsoleConf
      [] s = "timezone" -> fs["localtime"].exists /\ fs["localtime"].data = HostLocaltime
      [] s = "root_password" -> HasRoot("shadow", {HostRootHash})

\* the destination of setting s holds the value given by flag
HoldsExplicit(a, s) ==
    CASE s = "locale" ->
             /\ fs["locale.conf"].exists /\ Len(fs["locale.conf"].data) >= 1
             /\ fs["locale.conf"].data[1] = "LANG=" \o a.locale
      [] s = "keymap" ->
             /\ fs["vconsole.conf"].exists
             /\ fs["vconsole.conf"].data = <<"KEYMAP=" \o a.keymap>>
      [] s = "timezone" ->
             /\ fs["localtime"].exists
             /\ fs["localtime"].data = "../usr/share/zoneinfo/" \o a.timezone
      [] s = "root_password" ->
             HasRoot("shadow", CredFor([a EXCEPT !.copy_root_password = FALSE], "shadow"))

\* C9: on an alternate root, with both a value by flag and the copy option
\* for a setting, the copy from the host is tried first: once the step is
\* through, the destination holds the host's value when the host source
\* exists, and the value given by flag when the host source is absent.
C9_CopyBeforeExplicit ==
    \A s \in Copyable :
      LET a == arg0[1] q == HostQuery(s) IN
        (a.root /\ CopyFlag(a, s) /\ Explicit(a, s) /\ Past(1, s) /\ env[q] # "?") =>
          /\ env[q] \in {"ok", "found"} => HoldsHost(s)
          /\ env[q] = "ENOENT" => HoldsExplicit(a, s)

\* the case of C9 on a target root whose tables the step creates
C9_Observed ==
    \E s \in Copyable :
      LET a == arg0[1] IN
        /\ a.root /\ CopyFlag(a, s) /\ Explicit(a, s) /\ Past(1, s)
        /\ env[HostQuery(s)] \in {"ok", "found"} /\ HoldsHost(s)
        /\ s = "root_password"

\* The policy errors of a command line g, and of the globals a parsed from it
FlagError(g) ==
    \E o \in g :
      \/ o.opt = "keymap" /\ ~keymap_is_valid(o.val)
      \/ o.opt = "timezone" /\ ~timezone_is_valid(o.val)
      \/ o.opt = "hostname" /\ ~hostname_is_valid(o.val)
      \/ o.opt = "machine-id" /\ ~sd_id128_from_string_ok(o.val)

DeleteConflict(g) ==
    /\ Opt("delete-root-password", "") \in g
    /\ \E o \in g : o.opt \in {"root-password", "root-password-file", "root-password-hashed",
                               "copy-root-password", "prompt-root-password",
                               "copy", "prompt"}

LocaleError(a) ==
    \/ a.locale # Null /\ ~locale_is_ok(a, a.locale)
    \/ a.locale_messages # Null /\ ~locale_is_ok(a, a.locale_messages)

\* C10: every policy error (--delete-root-password with another source of
\* the root password, a malformed machine id, an invalid hostname, timezone,
\* keymap or locale given by flag) ends the run in parse_argv() with an
\* error, before any destination is created or modified.
C10_PolicyErrorsFailEarly ==
    \A p \in Procs :
      (FlagError(given[p]) \/ DeleteConflict(given[p]) \/ LocaleError(arg0[p])) =>
        /\ pc[p] \in {"parse", "exit"}
        /\ pc[p] = "exit" => ret[p].status = "fail" /\ ret[p].step = "parse_argv"
        /\ touched[p] = {}
        /\ fs = fs0

C10_Witness ==
    /\ pc[1] = "exit" /\ ret[1].status = "fail" /\ ret[1].step = "parse_argv"
    /\ DeleteConflict(given[1])
    /\ ~FlagError(given[1]) /\ ~LocaleError(arg0[1])
    /\ arg0[1].delete_root_password /\ arg0[1].root_password = "hunter2"
    /\ fs = fs0 /\ fs0["shadow"].exists

(***************************************************************************)
(* Properties of two invocations on one target root.                       *)
(***************************************************************************)
\* p is between the opening of a table's temporary file and the rename
InTransaction(p) ==
    \E k \in Tables :
      pc[p] \in {At(k, "open"), At(k, "orig"), At(k, "loop"), At(k, "synth"),
                 At(k, "flush"), At(k, "rename")}

AtPrompt(p) == pc[p] \in {"ask_password", "ask_password_again"}

\* C5: in every interleaving at most one process is inside a table
\* transaction, and a process inside one holds the lock (it took the lock
\* before it opened either table).
C5_OneWriter ==
    /\ \A p \in Procs : InTransaction(p) => lock = p /\ (tmp[p].exists => lock = p)
    /\ \A p, q \in Procs : (InTransaction(p) /\ InTransaction(q)) => p = q

C5_Witness ==
    \E p, q \in Procs :
      /\ p # q
      /\ InTransaction(p) /\ tmp[p].exists /\ Len(tmp[p].data) >= 1
      /\ pc[q] = "take_lock"
      /\ touched[q] = {} /\ touched[p] = {}

\* C6: a process that waits for the operator at the root password prompt
\* does not hold the lock, so it does not keep the other process from its
\* table transaction.
C6_NoLockAtPrompt ==
    \A p \in Procs : AtPrompt(p) => lock # p

\* what the code does in the case of C6: the other process waits for the
\* lock while this one waits for the operator
C6_Observed ==
    \E p, q \in Procs :
      /\ p # q
      /\ AtPrompt(p) /\ lock = p
      /\ pc[q] = "take_lock" /\ arg[q].root_password # Null

(***************************************************************************)
(* Properties of two runs in succession.                                   *)
(***************************************************************************)
\* C7: the second of two runs with the same command line and the same
\* answers, without --force, creates, rewrites or replaces no destination.
C7_SecondRunChangesNothing ==
    \A p \in Procs :
      (runNo[p] = 2 /\ ~arg0[p].force) => touched[p] = {} /\ fs = fs0

\* what the code does in the case of C7: the second run writes the password
\* table again
C7_Observed ==
    /\ runNo[1] = 2 /\ ~arg0[1].force /\ arg0[1].delete_root_password
    /\ "passwd" \in touched[1]
    /\ Completed(1)

(***************************************************************************)
(* Properties of the order of the steps.                                   *)
(***************************************************************************)
\* the steps of run() in the order of firstboot.c:1144-1170
StepEntry == {"locale", "keymap", "timezone", "hostname", "machine_id",
              "root_password", "kernel_cmdline"}

\* the number of the step a process at place s is in; 10 after run() returned
Where(s) == IF s = "exit" THEN 10 ELSE StepNo(s)

\* C11: the steps run in the order locale, keymap, timezone, hostname,
\* machine id, root password, kernel command line, each at most once; a
\* step's destination changes only while that step runs; and a step that
\* fails ends the run with an error at once, so that no later destination is
\* written and the earlier ones stay as written.
C11_FixedOrder ==
    /\ [](\A p \in Procs :
            /\ ret[p].status \in {"fail", "crash"} => pc[p] = "exit"
            /\ ret[p].status = "fail" =>
                 \A f \in touched[p] : StepNo(StepOf(f)) < StepNo(ret[p].step))
    /\ [][\A p \in Procs :
            LET n == Where(pc[p]) m == Where(pc'[p]) IN
              /\ m >= n
              /\ (pc'[p] \in StepEntry /\ pc'[p] # pc[p]) => m > n
              /\ \A f \in Dest :
                   /\ (f \in touched'[p]) # (f \in touched[p]) => StepNo(StepOf(f)) = n
                   /\ fs'[f] # fs[f] =>
                        \E q \in Procs : StepNo(StepOf(f)) = Where(pc[q])]_vars

C11_Witness ==
    /\ pc[1] = "exit" /\ ret[1].status = "fail" /\ ret[1].step = "hostname"
    /\ touched[1] = {"locale.conf"}
    /\ fs["locale.conf"].exists /\ fs["locale.conf"] # fs0["locale.conf"]
    /\ \A f \in Dest \ {"locale.conf"} : fs[f] = fs0[f]

(***************************************************************************)
(* Properties of the selection prompt.                                     *)
(***************************************************************************)
SelectionPrompts == {"locale_ask", "locale_ask_messages", "keymap_ask", "timezone_ask"}

\* the candidate list of the prompt_loop() call at place s
Candidates(s) ==
    CASE s \in {"locale_ask", "locale_ask_messages"} ->
             IF env["get_locales"] = "many" THEN LocaleList("many") ELSE <<>>
      [] s = "keymap_ask" -> KeymapList
      [] s = "timezone_ask" -> TimezoneList
      [] OTHER -> <<>>

OutOfRange(line, l) ==
    safe_atou(line) = 0 \/ safe_atou(line) > Len(l)

\* C13: at a selection prompt, the line "list" and a number that is 0 or
\* larger than the number of candidates make the loop ask again: the run
\* stays at the prompt, does not fail, and the value being selected, the
\* candidates and the files are unchanged.
C13_ListAndRangeAskAgain ==
    [][\A p \in Procs :
         (/\ pc[p] \in SelectionPrompts
          /\ \/ ui'[p].line = "list"
             \/ OutOfRange(ui'[p].line, Candidates(pc[p]))) =>
           /\ pc'[p] = pc[p] /\ ret'[p] = ret[p]
           /\ arg'[p] = arg[p] /\ env' = env
           /\ fs' = fs /\ touched' = touched]_vars

C13_Witness ==
    /\ pc[1] = "keymap_ask" /\ ui[1].line = "3"
    /\ OutOfRange(ui[1].line, Candidates(pc[1]))
    /\ ret[1].status = "running" /\ arg[1].keymap = Null

Answered(q) == env[q] \notin {"?", ""}

\* C14: every value a selection prompt returns, other than "skipped" on an
\* empty line, satisfies the validator of the setting, whether it was typed
\* or chosen by its number in the candidate list.
C14_ReturnedValuesValid ==
    /\ Answered("ans_locale") => locale_is_ok(arg[1], arg[1].locale)
    /\ Answered("ans_messages") =>
         arg[1].locale_messages = Null \/ locale_is_ok(arg[1], arg[1].locale_messages)
    /\ Answered("ans_keymap") => keymap_is_valid(arg[1].keymap)
    /\ Answered("ans_timezone") => timezone_is_valid(arg[1].timezone)

\* what the code does in the case of C14: a candidate chosen by number is
\* taken without asking the validator
C14_Observed ==
    /\ Completed(1) /\ env["ans_timezone"] = "3"
    /\ arg[1].timezone = TimezoneList[3] /\ ~timezone_is_valid(arg[1].timezone)
    /\ fs["localtime"].exists
    /\ fs["localtime"].data = "../usr/share/zoneinfo/" \o TimezoneList[3]

\* C15: a run with --delete-root-password writes, of the two tables, the
\* password table only, where root then has an empty password field; the
\* shadow table is neither created, nor read for a rewrite, nor replaced.
C15_DeleteWritesPasswdOnly ==
    arg0[1].delete_root_password =>
      /\ "shadow" \notin touched[1] /\ fs["shadow"] = fs0["shadow"]
      /\ tmp[1].of # "shadow"
      /\ pc[1] \notin {At("shadow", "open"), At("shadow", "orig"), At("shadow", "loop"),
                       At("shadow", "synth"), At("shadow", "flush"),
                       At("shadow", "rename")}
      /\ "passwd" \in touched[1] => HasRoot("passwd", {""})

\* the part of C15 the code keeps: the password table is replaced, the shadow
\* table stays as it was
C15_Observed ==
    /\ arg0[1].delete_root_password /\ Completed(1)
    /\ "passwd" \in touched[1] /\ HasRoot("passwd", {""})
    /\ fs0["passwd"].exists /\ fs0["shadow"].exists /\ fs["shadow"] = fs0["shadow"]

\* the password field process_root_password() is to store for the globals a
ExpectedHash(a) ==
    IF a.copy_root_password /\ a.root /\ env["getspnam"] = "found"
    THEN {HostRootHash}
    ELSE IF a.root_password = Null THEN {}
    ELSE IF a.root_password_is_hashed THEN {a.root_password}
    ELSE { crypt_r(a.root_password, salt) : salt \in Salts }

\* C16: the password field written to root's shadow record is the host's
\* hash when the copy from the host applies, the given string as it is when
\* it was given as hashed, and else the hash of the given or prompted
\* plaintext under a salt of make_salt(); the plaintext is never written.
C16_ShadowHoldsHash ==
    "shadow" \in touched[1] =>
      \A i \in 1..Len(fs["shadow"].data) :
        LET rec == fs["shadow"].data[i] IN
          rec.name = "root" =>
            /\ rec.cred \in ExpectedHash(arg[1])
            /\ (~arg[1].root_password_is_hashed /\ arg[1].root_password # Null)
                 => rec.cred # arg[1].root_password

C16_Witness ==
    /\ Completed(1) /\ "shadow" \in touched[1]
    /\ env["ans_password"] = "letmein" /\ arg[1].root_password = "letmein"
    /\ fs0["shadow"].exists
    /\ HasRoot("shadow", {crypt_r("letmein", "saltB")})

\* the identifiers the command line g asks for
RequestedIds(g) ==
    { sd_id128_from_string(o.val) :
        o \in { x \in g : x.opt = "machine-id" /\ sd_id128_from_string_ok(x.val) } }
      \cup (IF Opt("setup-machine-id", "") \in g THEN {RandomMachineId} ELSE {})

\* C17: /etc/machine-id is written only from --machine-id or
\* --setup-machine-id: without either it is never created or modified, with
\* or without --force; and when the step writes, the file holds the
\* identifier that was asked for.
C17_MachineIdOnlyOnRequest ==
    /\ RequestedIds(given[1]) = {} =>
         "machine-id" \notin touched[1] /\ fs["machine-id"] = fs0["machine-id"]
    /\ "machine-id" \in touched[1] =>
         /\ fs["machine-id"].exists
         /\ fs["machine-id"].data = arg0[1].machine_id
         /\ fs["machine-id"].data \in RequestedIds(given[1]) \ {Null}

C17_Witness ==
    /\ "machine-id" \in touched[1] /\ fs0["machine-id"].exists /\ arg0[1].force
    /\ Opt("machine-id", "01234567-89AB-CDEF-0123-456789ABCDEF") \in given[1]
    /\ fs["machine-id"].data = "0123456789abcdef0123456789abcdef"

(***************************************************************************)
(* Properties of --force and of empty values.                              *)
(***************************************************************************)
\* the settings with one destination each, and what the step of destination
\* f writes for the globals a: <<>> stands for "nothing to write"
Settings == Dest \ Tables

Resolved(a, f) ==
    CASE f = "locale.conf" ->
             IF a.copy_locale /\ a.root /\ env["host_locale"] = "ok"
             THEN <<HostLocaleConf>>
             ELSE IF ~isempty(a.locale)
             THEN << <<"LANG=" \o a.locale>>
                     \o (IF ~isempty(a.locale_messages) /\ a.locale_messages # a.locale
                         THEN <<"LC_MESSAGES=" \o a.locale_messages>> ELSE <<>>) >>
             ELSE <<>>
      [] f = "vconsole.conf" ->
             IF a.copy_keymap /\ a.root /\ env["host_vconsole"] = "ok"
             THEN <<HostVconsoleConf>>
             ELSE IF ~isempty(a.keymap) THEN << <<"KEYMAP=" \o a.keymap>> >> ELSE <<>>
      [] f = "localtime" ->
             IF a.copy_timezone /\ a.root /\ env["host_localtime"] = "ok"
             THEN <<HostLocaltime>>
             ELSE IF ~isempty(a.timezone)
             THEN <<"../usr/share/zoneinfo/" \o a.timezone>> ELSE <<>>
      [] f = "hostname" -> IF ~isempty(a.hostname) THEN <<a.hostname>> ELSE <<>>
      [] f = "machine-id" -> IF a.machine_id # Null THEN <<a.machine_id>> ELSE <<>>
      [] f = "cmdline" -> IF ~isempty(a.kernel_cmdline) THEN <<a.kernel_cmdline>> ELSE <<>>

\* with --force, a destination that existed holds the value its step resolved
\* once the step is through
ForceReplaces(f) ==
    (/\ arg0[1].force /\ fs0[f].exists
     /\ Past(1, StepOf(f)) /\ Resolved(arg[1], f) # <<>>) =>
       /\ f \in touched[1] /\ fs[f].exists
       /\ fs[f].data = Resolved(arg[1], f)[1]

\* C18: with --force every setting that has a value to write replaces an
\* existing destination by it and its step succeeds, the link /etc/localtime
\* included: no step fails because its destination exists.
C18_ForceReplacesExisting ==
    /\ \A f \in Settings : ForceReplaces(f)
    /\ \A p \in Procs : ~(ret[p].status = "fail" /\ ret[p].at = "EEXIST")

\* what the code does in the case of C18: the step of the timezone fails on
\* the existing link, and the steps after it do not run
C18_Observed ==
    /\ arg0[1].force /\ arg0[1].timezone = "UTC" /\ arg0[1].hostname = "host"
    /\ fs0["localtime"].exists /\ fs["localtime"] = fs0["localtime"]
    /\ pc[1] = "exit" /\ ret[1].status = "fail" /\ ret[1].step = "timezone"
    /\ ret[1].at = "EEXIST"
    /\ "hostname" \notin touched[1]

\* the value of destination f is unset or empty once the copy from the host,
\* the flags and the prompt have had their turn
Unresolved(a, f) ==
    CASE f = "locale.conf" -> Resolved(a, f) = <<>> /\ isempty(a.locale_messages)
      [] f = "shadow" ->
             /\ ~a.delete_root_password
             /\ ~(a.copy_root_password /\ a.root /\ env["getspnam"] = "found")
             /\ isempty(a.root_password)
      [] OTHER -> Resolved(a, f) = <<>>

\* neither a prompt nor a copy from the host is requested for destination f
Unasked(a, f) ==
    CASE f = "locale.conf" -> ~a.prompt_locale /\ ~a.copy_locale
      [] f = "vconsole.conf" -> ~a.prompt_keymap /\ ~a.copy_keymap
      [] f = "localtime" -> ~a.prompt_timezone /\ ~a.copy_timezone
      [] f = "hostname" -> ~a.prompt_hostname
      [] f = "shadow" -> ~a.prompt_root_password /\ ~a.copy_root_password
      [] OTHER -> TRUE

\* C19: a setting whose value is unset or the empty string after the copy,
\* flag and prompt steps is not written and its step succeeds (a step that
\* neither prompts nor copies can then fail only for the lock of the tables);
\* this includes a root password and a kernel command line given as the
\* empty string.
C19_EmptyWritesNothing ==
    \A f \in Settings \cup {"shadow"} :
      Unresolved(arg[1], f) =>
        /\ Past(1, StepOf(f)) => f \notin touched[1]
        /\ (/\ Unasked(arg[1], f)
            /\ pc[1] = "exit" /\ ret[1].status = "fail" /\ ret[1].step = StepOf(f))
             => ret[1].at = "take_lock"

\* what the code does in the case of C19: the empty kernel command line is
\* written as an empty file, the hash of the empty password into the table
C19_Observed ==
    /\ Completed(1)
    /\ arg[1].kernel_cmdline = "" /\ arg[1].root_password = ""
    /\ ~arg[1].root_password_is_hashed
    /\ "cmdline" \in touched[1] /\ fs["cmdline"].data = ""
    /\ "shadow" \in touched[1]
    /\ HasRoot("shadow", {crypt_r("", salt) : salt \in Salts})

ValidAt(s, a, line) ==
    CASE s \in {"locale_ask", "locale_ask_messages"} -> locale_is_ok(a, line)
      [] s = "keymap_ask" -> keymap_is_valid(line)
      [] s = "timezone_ask" -> timezone_is_valid(line)
      [] s = "hostname_ask" -> hostname_is_valid(line)

\* the line read at place s is an error of the operator: a number out of
\* range, or a text the validator rejects
InputError(s, a, line) ==
    /\ line \notin {"", "list", ReadError}
    /\ IF s \in SelectionPrompts /\ safe_atou(line) >= 0
       THEN OutOfRange(line, Candidates(s))
       ELSE ~ValidAt(s, a, line)

\* C21: an error of the operator's input never ends the run. After a text
\* the validator rejects, a number out of range or an invalid hostname the
\* step asks the same question again with nothing changed; after a
\* confirmation that differs from the password the step asks for the password
\* again, and nothing of the failed attempt is kept: whenever the first
\* password question is open, no entry is stored and no credential is set.
C21_InputErrorsAskAgain ==
    /\ [](\A p \in Procs :
            pc[p] = "ask_password" =>
              /\ pw1[p] = Null /\ hp[p] = Null /\ arg[p].root_password = Null
              /\ ret[p].status = "running")
    /\ [][\A p \in Procs :
            /\ (/\ pc[p] \in SelectionPrompts \cup {"hostname_ask"}
                /\ InputError(pc[p], arg[p], ui'[p].line)) =>
                 /\ pc'[p] = pc[p] /\ ret'[p] = ret[p]
                 /\ arg'[p] = arg[p] /\ env' = env /\ touched'[p] = touched[p]
            /\ (/\ pc[p] = "ask_password_again"
                /\ ui'[p].line \notin {ReadError, pw1[p]}) =>
                 /\ pc'[p] = "ask_password" /\ ret'[p] = ret[p]
                 /\ arg'[p] = arg[p] /\ env' = env /\ touched'[p] = touched[p]
                 /\ pw1'[p] = Null /\ hp'[p] = hp[p] /\ lock' = lock]_vars

\* the first password question is open again after the confirmation "letmein"
\* did not match, and an invalid hostname was asked again before that
C21_Witness ==
    /\ pc[1] = "ask_password" /\ ui[1].line = "letmein"
    /\ arg0[1].prompt_hostname /\ env["ans_hostname"] = "host."
    /\ ret[1].status = "running" /\ lock = 1

(***************************************************************************)
(* The copy from the host.                                                 *)
(***************************************************************************)
PromptFlag(a, s) ==
    CASE s = "locale" -> a.prompt_locale
      [] s = "keymap" -> a.prompt_keymap
      [] s = "timezone" -> a.prompt_timezone
      [] s = "root_password" -> a.prompt_root_password

DestOf(s) ==
    CASE s = "locale" -> "locale.conf"
      [] s = "keymap" -> "vconsole.conf"
      [] s = "timezone" -> "localtime"
      [] s = "root_password" -> "shadow"

\* answers of the host that say "there is no such source", and those that
\* report another error
MissingSource == {"ENOENT", "none"}
SourceError == {"EIO", "EINVAL", "EACCES"}

FailedAt(p, s) == pc[p] = "exit" /\ ret[p].status = "fail" /\ ret[p].step = s

\* C22: the host is asked for the source of a setting only when an alternate
\* root and the setting's copy option are given; a source the host does not
\* have is no error, the step goes on with the value given by flag or with
\* the prompt (so a step that has neither succeeds without writing); any
\* other failure to read the source fails the step and with it the run.
C22_CopyFromHost ==
    \A s \in Copyable :
      LET a == arg[1] host == env[HostQuery(s)] IN
        /\ (~a.root \/ ~CopyFlag(a, s)) => host = "?"
        /\ host \in MissingSource =>
             /\ (/\ ~PromptFlag(a, s) /\ ~Explicit(a, s)
                 /\ s = "locale" => a.locale_messages = Null) =>
                  /\ ~FailedAt(1, s)
                  /\ Past(1, s) => DestOf(s) \notin touched[1]
             /\ (Explicit(a, s) /\ Completed(1)) => DestOf(s) \in touched[1]
        /\ host \in SourceError =>
             FailedAt(1, s) /\ DestOf(s) \notin touched[1]

\* what the code does in the case of C22: the host has a shadow table without
\* an entry of root, and the run fails
C22_Observed ==
    /\ env["getspnam"] = "none" /\ arg[1].copy_root_password /\ arg[1].root
    /\ ~arg[1].prompt_root_password /\ arg[1].root_password = Null
    /\ FailedAt(1, "root_password") /\ lock = 0
    /\ "shadow" \notin touched[1]

(***************************************************************************)
(* The candidate lists.                                                    *)
(***************************************************************************)
ListQuery(s) ==
    CASE s = "locale" -> "get_locales"
      [] s = "keymap" -> "get_keymaps"
      [] s = "timezone" -> "get_timezones"

\* answers of get_locales(), get_keymaps(), get_timezones() that are r < 0
ListError == {"err", "ENOENT"}

\* C23: when the list of locales, keymaps or timezones of a prompted setting
\* cannot be read, whatever the error, the step fails and the run ends with
\* that error: no destination of that step or of a later one is written.
C23_ListErrorsAreFatal ==
    \A s \in {"locale", "keymap", "timezone"} :
      env[ListQuery(s)] \in ListError =>
        /\ FailedAt(1, s)
        /\ \A f \in touched[1] : StepNo(StepOf(f)) < StepNo(s)

\* what the code does in the case of C23: get_keymaps() returns -ENOENT, the
\* step of the keymap returns 0 and the later steps run
C23_Observed ==
    /\ env["get_keymaps"] = "ENOENT" /\ arg[1].prompt_keymap
    /\ Completed(1) /\ "hostname" \in touched[1]
    /\ "vconsole.conf" \notin touched[1]

(***************************************************************************)
(* The lock of the tables and the end of the step.                         *)
(***************************************************************************)
\* C24: on every way out of the step of the root credential after the lock
\* was taken, the lock is released when the step returns: a process does not
\* hold the lock while its step of the kernel command line runs, nor when it
\* has returned its result.
C24_LockReleasedOnReturn ==
    \A p \in Procs :
      pc[p] \in {"root_password", "kernel_cmdline", "exit"} => lock # p

\* one process has returned 0 after it wrote the shadow table, and the other
\* one now holds the lock inside its own transaction
C24_Witness ==
    \E p, q \in Procs :
      /\ p # q
      /\ pc[p] = "exit" /\ "shadow" \in touched[p] /\ ret[p].status = "ok"
      /\ lock = q /\ InTransaction(q)

\* C25: two runs without --force on a target root that had no shadow table:
\* in every interleaving, once one of them has installed /etc/shadow the
\* table is not replaced again (the other run skips it as existing).
C25_InstalledShadowStays ==
    [][(/\ \A p \in Procs : ~arg0[p].force
        /\ ~fs0["shadow"].exists
        /\ fs["shadow"].exists) => fs'["shadow"] = fs["shadow"]]_vars

\* what the code does in the case of C25: both runs tested for the table
\* before either had the lock, and the second one replaced the table of the
\* first with its own credential
C25_Observed ==
    /\ \A p \in Procs : ~arg0[p].force /\ Completed(p) /\ "shadow" \in touched[p]
    /\ ~fs0["shadow"].exists
    /\ arg0[1].root_password = "hunter2" /\ arg0[2].root_password = "$6$prehashed"
    /\ HasRoot("shadow", {"$6$prehashed"})

(***************************************************************************)
(* Properties of the transaction of a table writer.                        *)
(***************************************************************************)
\* the temporary file of process p holds every record of the table it is for
WholeTable(p) ==
    /\ tmp[p].exists
    /\ Len(tmp[p].data) = IF fs[tmp[p].of].exists THEN Len(fs[tmp[p].of].data) ELSE 1

\* C26: a table is replaced only by the rename of a writer, and the rename
\* happens only after every record was written to the temporary file and the
\* file was flushed and synced; after a failed write or sync there is no
\* rename. So the path of a table never names a partly written table: it
\* holds as many records as when the writer started, or the one record of
\* root when there was no table.
C26_RenameAfterSync ==
    /\ [](\A k \in Tables :
            /\ fs[k].exists =>
                 Len(fs[k].data) = IF fs0[k].exists THEN Len(fs0[k].data) ELSE 1
            /\ \A p \in Procs : pc[p] = At(k, "rename") => tmp[p].synced /\ WholeTable(p))
    /\ [][\A k \in Tables :
            fs'[k] # fs[k] =>
              \E p \in Procs :
                /\ pc[p] = At(k, "rename") /\ tmp[p].of = k
                /\ tmp[p].synced /\ WholeTable(p)
                /\ fs'[k] = File(tmp[p].data, tmp[p].mode)]_vars

\* a table of two records was replaced by the two records of the temporary file
C26_Witness ==
    \E k \in Tables :
      /\ k \in touched[1] /\ fs0[k].exists /\ Len(fs0[k].data) = 2
      /\ fs[k] # fs0[k] /\ Len(fs[k].data) = 2
      /\ pc[1] = "kernel_cmdline" /\ ~tmp[1].exists

\* C27: when a writer has returned, with success or with a failure after it
\* created its temporary file, no temporary file of it is left, and after a
\* success the table it renamed into place is there.
C27_NoTemporaryLeft ==
    \A p \in Procs :
      /\ ~InTransaction(p) => ~tmp[p].exists /\ tmp[p] = TmpNone
      /\ \A k \in Tables : k \in touched[p] => fs[k].exists

\* the writer failed in the sync of its temporary file, which held a record,
\* and the table is as it was
C27_Witness ==
    \E k \in Tables :
      /\ FailedAt(1, "root_password") /\ ret[1].at = At(k, "flush")
      /\ ~tmp[1].exists /\ fs[k] = fs0[k] /\ fs0[k].exists

\* C28: the mode of the temporary file is set before a record is written to
\* it: it is the mode of the table when there is one and 0000 when there is
\* none. So a file with records of the tables, temporary or renamed into
\* place, never has another mode than the table had, and a new table has
\* mode 0000 (no access for others).
C28_ModeBeforeRecords ==
    /\ \A p \in Procs :
         (tmp[p].exists /\ tmp[p].data # <<>>) =>
           tmp[p].mode = IF fs[tmp[p].of].exists THEN fs[tmp[p].of].mode ELSE "0000"
    /\ \A k \in Tables :
         fs[k].exists => fs[k].mode = IF fs0[k].exists THEN fs0[k].mode ELSE "0000"

\* the one record of a new shadow table is in the temporary file, of mode 0000
C28_Witness ==
    /\ pc[1] = At("shadow", "flush") /\ ~fs0["shadow"].exists
    /\ tmp[1].exists /\ Len(tmp[1].data) = 1 /\ tmp[1].mode = "0000"

(***************************************************************************)
(* The destinations of the steps.                                          *)
(***************************************************************************)
\* C29: a step creates or changes only the destination of its own setting
\* (the two tables for the root credential): while the run is in a step every
\* other destination stays as it is, so that a destination the run did not
\* write in its own step is the one the run found.
C29_OwnDestinationOnly ==
    /\ [](\A f \in Dest : f \notin touched[1] => fs[f] = fs0[f])
    /\ [][\A f \in Dest :
            (fs'[f] # fs[f] \/ (f \in touched'[1] /\ f \notin touched[1])) =>
              /\ pc[1] # "exit" /\ StepNo(pc[1]) = StepNo(StepOf(f))
              /\ f \in touched'[1]
              /\ \A g \in Dest \ {f} : fs'[g] = fs[g]]_vars

\* the run wrote the hostname and the kernel command line, each in its step,
\* and left the machine id it found
C29_Witness ==
    /\ Completed(1) /\ touched[1] = {"hostname", "cmdline"}
    /\ arg0[1].force /\ fs0["hostname"].exists /\ fs0["machine-id"].exists
    /\ fs["hostname"] # fs0["hostname"] /\ fs["machine-id"] = fs0["machine-id"]

(***************************************************************************)
(* The welcome banner.                                                     *)
(***************************************************************************)
Questions ==
    {"locale_ask", "locale_ask_messages", "keymap_ask", "timezone_ask",
     "hostname_ask", "ask_password", "ask_password_again"}

Answers ==
    {"ans_locale", "ans_messages", "ans_keymap", "ans_timezone", "ans_hostname",
     "ans_password"}

\* C30: the banner is shown at most once in a run, however many settings
\* ask; when a question is or was open the banner has been shown; and a run
\* that asked nothing has not shown it.
C30_BannerOnce ==
    \A p \in Procs :
      /\ ui[p].banners <= 1
      /\ ui[p].banners = 1 <=> ui[p].asked
      /\ ui[p].done <=> ui[p].banners = 1
      /\ pc[p] \in Questions => ui[p].banners = 1
      /\ (p = 1 /\ \E q \in Answers : env[q] # "?") => ui[p].banners = 1

\* two settings asked their question, the banner was shown once
C30_Witness ==
    /\ Completed(1) /\ ui[1].banners = 1
    /\ env["ans_keymap"] = "us" /\ env["ans_hostname"] = "host."
    /\ touched[1] = {"vconsole.conf", "hostname"}

(***************************************************************************)
(* The two keys of /etc/locale.conf.                                       *)
(***************************************************************************)
\* the candidate a line selects at a question: by number, or the text itself
Chosen(line, l) ==
    IF safe_atou(line) >= 1 /\ safe_atou(line) <= Len(l) THEN l[safe_atou(line)] ELSE line

\* the message locale the run resolved: the one of the flag, else the one
\* answered at the question (Null when there is none)
ResolvedMessages ==
    IF arg0[1].locale_messages # Null THEN arg0[1].locale_messages
    ELSE IF env["ans_messages"] \notin {"?", ""}
    THEN Chosen(env["ans_messages"], LocaleList("many"))
    ELSE Null

LocaleCopied ==
    arg[1].copy_locale /\ arg[1].root /\ env["host_locale"] = "ok"

\* C31: when the step of the locale writes /etc/locale.conf from a primary
\* locale and a message locale, the file has the one line LANG= when the two
\* are the same, and the two lines LANG= and LC_MESSAGES=, in this order, when
\* they differ.
C31_MessagesKeySuppressed ==
    (/\ "locale.conf" \in touched[1] /\ ~LocaleCopied
     /\ ~isempty(arg[1].locale) /\ ResolvedMessages # Null) =>
       fs["locale.conf"].data =
         IF ResolvedMessages = arg[1].locale
         THEN <<"LANG=" \o arg[1].locale>>
         ELSE <<"LANG=" \o arg[1].locale, "LC_MESSAGES=" \o ResolvedMessages>>

\* both flags name de_DE, and the file has the line of LANG only
C31_Witness ==
    /\ arg0[1].locale = "de_DE" /\ arg0[1].locale_messages = "de_DE"
    /\ Completed(1) /\ touched[1] = {"locale.conf"}
    /\ fs["locale.conf"].data = <<"LANG=de_DE">>

\* the step of the locale got as far as its write: the destination did not
\* make it return at once, and the host's file was not copied
LocaleResolved ==
    /\ arg0[1].force \/ ~fs0["locale.conf"].exists
    /\ ~LocaleCopied
    /\ ~(arg[1].copy_locale /\ arg[1].root /\ env["host_locale"] \in {"?", "EIO"})
    /\ Where(pc[1]) > 2

\* C32: with a message locale given by flag and no primary locale given or
\* resolved, the step of the locale ends normally, without comparing the
\* message locale with the unset primary locale, and the file it writes has
\* the one line LC_MESSAGES=.
C32_MessagesWithoutLocale ==
    (/\ arg0[1].locale_messages # Null /\ arg[1].locale = Null
     /\ LocaleResolved) =>
       /\ ret[1].status # "crash"
       /\ "locale.conf" \in touched[1] =>
            fs["locale.conf"].data = <<"LC_MESSAGES=" \o arg0[1].locale_messages>>
       /\ Past(1, "locale") => "locale.conf" \in touched[1]

\* what the code does in the case of C32: strcmp() is called with a null
\* pointer, and the process may die in it
C32_Observed ==
    /\ arg0[1].locale_messages = "de_DE" /\ arg[1].locale = Null
    /\ pc[1] = "exit" /\ ret[1].status = "crash" /\ ret[1].step = "locale"
    /\ touched[1] = {}

(***************************************************************************)
(* The menu listing: prompt_loop() reads "list" and calls show_menu(),     *)
(* firstboot.c:114-158 and 181-188; the gate is press_any_key(), 67-80.    *)
(***************************************************************************)
MaxCand == 18       \* the longest candidate list
MaxLines == 6       \* the tallest terminal

firstbootVars ==
    <<pc, arg, arg0, runNo, ret, ui, touched, hp, pw1, tmp, idx, fs, fs0, lock, given, env>>

\* names of candidates, none of them a numeral and none longer than the column
MenuNames ==
    << "aa", "ab", "ac", "ad", "ae", "af", "ag", "ah", "ai", "aj", "ak", "al",
       "am", "an", "ao", "ap", "aq", "ar", "as", "at", "au", "av", "aw", "ax" >>

\* lines() of terminal-util.c: the height of the terminal, at least 1
Lines == 1..MaxLines

printf_zu(n) == Numerals[n]

\* ellipsize() returns a copy of a string that fits into `width` columns
ellipsize(s, width, percentage) == s

DIV_ROUND_UP(a, b) == (a + b - 1) \div b

per_column(n, n_columns) == DIV_ROUND_UP(n, n_columns)

break_lines(h) == IF h > 2 THEN h - 1 ELSE h

break_modulo(h) == IF break_lines(h) > 3 THEN break_lines(h) - 3 ELSE break_lines(h)

\* a variant that lays the candidates out row by row
Cell_RowMajor(i, j, per) == i * 3 + j

\* index into x of the candidate in row i, column j (both counted from 0)
Cell(i, j, per) == j * per + i

\* one pass of the inner loop of show_menu(): the cells of row i, up to the `break`
MenuRow(x, i, n_columns, width, percentage) ==
    LET per == per_column(Len(x), n_columns)
        js == { j \in 0..(n_columns - 1) : \A jj \in 0..j : Cell(i, jj, per) < Len(x) }
    IN  [ c \in 1..Cardinality(js) |->
            [ no |-> printf_zu(Cell(i, c - 1, per) + 1),
              e  |-> ellipsize(x[Cell(i, c - 1, per) + 1], width, percentage) ] ]

MenuInit(x, h) ==
    [ st |-> "prompt", x |-> x, h |-> h, lists |-> 0, i |-> 0, out |-> << >>,
      since |-> 0, gates |-> 0, key |-> Null, cancelled |-> FALSE, r |-> 0,
      line |-> Null, ret |-> Null ]

\* prompt_loop() reads "list" and enters show_menu(l, 3, 22, percentage)
PromptList ==
    /\ menu.st = "prompt" /\ menu.lists = 0
    /\ prompt_loop("list", menu.x, TRUE, Null).k = "again"
    /\ menu' = [menu EXCEPT !.st = "rows", !.lists = 1, !.line = "list",
                            !.i = 0, !.out = << >>, !.since = 0]
    /\ UNCHANGED <<firstbootVars, qdisc>>

\* one pass of the outer loop: the row, the newline, and the test for the gate
ShowMenuRow ==
    /\ menu.st = "rows"
    /\ menu.i < per_column(Len(menu.x), 3)
    /\ menu' = [menu EXCEPT
                  !.out = Append(@, MenuRow(menu.x, menu.i, 3, 22, 60)),
                  !.since = @ + 1,
                  !.i = @ + 1,
                  !.st = IF menu.i % break_lines(menu.h) = break_modulo(menu.h)
                         THEN "gate" ELSE "rows"]
    /\ UNCHANGED <<firstbootVars, qdisc>>

\* press_any_key(): FALSE when the key is q, and show_menu() then returns 0
press_any_key(k) ==
    /\ menu.st = "gate"
    /\ menu' = IF k # "q"
               THEN [menu EXCEPT !.st = "rows", !.key = k, !.since = 0, !.gates = @ + 1]
               ELSE [menu EXCEPT !.st = "prompt", !.key = k, !.gates = @ + 1,
                                 !.cancelled = TRUE, !.r = 0]
    /\ UNCHANGED <<firstbootVars, qdisc>>

\* the outer loop has ended: show_menu() returns 0, prompt_loop() goes on
ShowMenuReturn ==
    /\ menu.st = "rows"
    /\ menu.i = per_column(Len(menu.x), 3)
    /\ menu' = [menu EXCEPT !.st = "prompt", !.r = 0]
    /\ UNCHANGED <<firstbootVars, qdisc>>

\* the line after the listing: a number, in the range of the list or not
PromptNumber(u) ==
    /\ menu.st = "prompt" /\ menu.lists = 1
    /\ LET p == IF u = 0 THEN "0" ELSE printf_zu(u)
           q == prompt_loop(p, menu.x, TRUE, Null)
       IN  menu' = [menu EXCEPT !.line = p,
                                !.st = IF q.k = "return" THEN "chosen" ELSE "prompt",
                                !.ret = q.ret]
    /\ UNCHANGED <<firstbootVars, qdisc>>

InitMenu ==
    /\ ProcInit({}, "parse")
    /\ arg = [p \in Procs |-> ArgInit]
    /\ arg0 = arg
    /\ hp = [p \in Procs |-> Null]
    /\ tmp = [p \in Procs |-> TmpNone]
    /\ lock = 0
    /\ fs = [f \in Dest |-> Absent(f)]
    /\ fs0 = fs
    /\ qdisc = QDiscNone
    /\ \E n \in 1..MaxCand, h \in Lines : menu = MenuInit(SubSeq(MenuNames, 1, n), h)

NextMenu ==
    \/ PromptList
    \/ ShowMenuRow
    \/ \E k \in {"q", " "} : press_any_key(k)
    \/ ShowMenuReturn
    \/ \E u \in 0..(Len(menu.x) + 1) : PromptNumber(u)

SpecMenu == InitMenu /\ [][NextMenu]_vars

(***************************************************************************)
(* Properties of the menu listing.                                         *)
(***************************************************************************)
\* the cells of the listing so far, as <<row, column>> counted from 1
Shown == { rc \in (1..Len(menu.out)) \X (1..3) : rc[2] <= Len(menu.out[rc[1]]) }

\* show_menu() went through all rows
ListedAll == menu.st \in {"prompt", "chosen"} /\ menu.lists = 1 /\ ~menu.cancelled

\* C33: a listing of n >= 1 candidates that is not cancelled shows every
\* candidate exactly once, the candidate in row r and column c being the
\* one at place (c - 1) * ceil(n / 3) + r of the list, and the number next to a
\* candidate, entered at the prompt, selects that candidate.
C33_MenuShowsAllColumnMajor ==
    menu.st # "idle" =>
      LET n == Len(menu.x)
          per == (n + 2) \div 3
      IN  /\ \A rc \in Shown :
                LET cell == menu.out[rc[1]][rc[2]]
                    at == (rc[2] - 1) * per + rc[1]
                IN  /\ at \in 1..n
                    /\ cell.e = menu.x[at]
                    /\ prompt_loop(cell.no, menu.x, TRUE, Null)
                         = [k |-> "return", ret |-> cell.e]
          /\ ListedAll =>
                \A k \in 1..n :
                   Cardinality({ rc \in Shown : menu.out[rc[1]][rc[2]].e = menu.x[k] }) = 1
          /\ ListedAll /\ menu.st = "chosen" =>
                \E rc \in Shown : /\ menu.out[rc[1]][rc[2]].no = menu.line
                                  /\ menu.out[rc[1]][rc[2]].e = menu.ret

\* a list that needs all three columns and several rows was listed to its end,
\* and the number shown in the last column of the first row was entered
C33_Witness ==
    /\ menu.st = "chosen" /\ ListedAll
    /\ Len(menu.x) = 8 /\ Len(menu.out) = 3
    /\ Len(menu.out[1]) = 3 /\ Len(menu.out[3]) = 2
    /\ menu.line = "7" /\ menu.out[1][3].no = "7" /\ menu.ret = "ag"

\* C34: for every terminal height, a listing with more rows than one screen
\* stops at a key-press gate after each full screen - never more rows than
\* the terminal is high before the first gate or between two gates - and q at
\* a gate ends the listing with success, before any further row, and the
\* prompt asks again.
C34_GateEveryScreen ==
    /\ [](menu.st # "idle" => menu.since <= menu.h)
    /\ [][ (menu.st = "gate" /\ menu'.key = "q" /\ menu'.gates = menu.gates + 1)
             => /\ menu'.st = "prompt" /\ menu'.r = 0
                /\ menu'.out = menu.out /\ menu'.lists = 1 ]_vars

\* a terminal of four lines: all six rows of an 18-candidate list were
\* printed and show_menu() returned without having stopped at any gate
C34_Observed ==
    /\ menu.st = "prompt" /\ menu.lists = 1 /\ menu.h = 4
    /\ Len(menu.x) = 18 /\ Len(menu.out) = 6
    /\ menu.gates = 0 /\ menu.since = 6

(***************************************************************************)
(* The packet limit of a network emulator: the assignments of one          *)
(* [NetworkEmulator] section, netem.c:176-224, and the message to the      *)
(* kernel, netem.c:16-55.                                                  *)
(***************************************************************************)
MaxAssign == 3      \* assignments of the packet limit in one section

\* right-hand sides: empty, zero, two numbers, and something that is no number
RValues == {"", "0", "3", "7", "junk"}

QDiscInit ==
    [ st |-> "parsing", limit |-> 0, invalid |-> FALSE, hist |-> << >>,
      log |-> Null, r |-> 0, msg |-> Null ]

\* One assignment.  The qdisc of the section is held by a pointer whose cleanup,
\* qdisc_free_or_set_invalidp, marks the section invalid unless the pointer
\* was reset to NULL before the return; the path of the parse error (215-220)
\* does not reset it.
config_parse_network_emulator_packet_limit(rvalue) ==
    /\ qdisc.st = "parsing"
    /\ Len(qdisc.hist) < MaxAssign
    /\ qdisc' =
         IF isempty(rvalue)
         THEN [qdisc EXCEPT !.limit = 0, !.log = Null, !.r = 0,
                            !.hist = Append(@, rvalue)]
         ELSE IF safe_atou(rvalue) < 0
         THEN [qdisc EXCEPT !.invalid = TRUE, !.log = "ignoring assignment", !.r = 0,
                            !.hist = Append(@, rvalue)]
         ELSE [qdisc EXCEPT !.limit = safe_atou(rvalue), !.log = Null, !.r = 0,
                            !.hist = Append(@, rvalue)]
    /\ UNCHANGED <<firstbootVars, menu>>

\* After the file is read, a qdisc whose section is marked invalid is dropped
qdisc_section_verify ==
    /\ qdisc.st = "parsing"
    /\ qdisc' = [qdisc EXCEPT !.st = IF qdisc.invalid THEN "dropped" ELSE "verified"]
    /\ UNCHANGED <<firstbootVars, menu>>

network_emulator_fill_message ==
    /\ qdisc.st = "verified"
    /\ qdisc' = [qdisc EXCEPT
                   !.st = "sent",
                   !.msg = [limit |-> IF qdisc.limit > 0 THEN qdisc.limit ELSE 1000],
                   !.r = 0]
    /\ UNCHANGED <<firstbootVars, menu>>

InitNetem ==
    /\ ProcInit({}, "parse")
    /\ arg = [p \in Procs |-> ArgInit]
    /\ arg0 = arg
    /\ hp = [p \in Procs |-> Null]
    /\ tmp = [p \in Procs |-> TmpNone]
    /\ lock = 0
    /\ fs = [f \in Dest |-> Absent(f)]
    /\ fs0 = fs
    /\ menu = MenuNone
    /\ qdisc = QDiscInit

NextNetem ==
    \/ \E rvalue \in RValues : config_parse_network_emulator_packet_limit(rvalue)
    \/ qdisc_section_verify
    \/ network_emulator_fill_message

SpecNetem == InitNetem /\ [][NextNetem]_vars

(***************************************************************************)
(* Properties of the packet limit.                                         *)
(***************************************************************************)
Parsed(v) == ~isempty(v) /\ safe_atou(v) >= 0

\* the assignments that are not ignored: the empty ones and the numbers
Effective(h) == { k \in 1..Len(h) : isempty(h[k]) \/ Parsed(h[k]) }

LastEffective(h) == CHOOSE k \in Effective(h) : \A m \in Effective(h) : m <= k

\* the limit the statement expects for a sequence h of assignments
ExpectedLimit(h) ==
    IF Effective(h) = {} THEN 1000
    ELSE LET v == h[LastEffective(h)]
         IN  IF Parsed(v) /\ safe_atou(v) > 0 THEN safe_atou(v) ELSE 1000

\* the assignments were read and the qdisc was handled: sent to the kernel or dropped
Handled == qdisc.st \in {"sent", "dropped"}

\* C35: after any sequence of assignments of the packet limit (numbers,
\* strings that are no number, empty strings) the message to the kernel carries
\* the last number that was parsed when it is positive and no empty assignment
\* came after it, and 1000 otherwise; an assignment that is no number leaves
\* the limit as it was and is reported as ignored, with result 0.
C35_LimitOfLastValid ==
    /\ [](Handled => /\ qdisc.msg # Null
                     /\ qdisc.msg.limit = ExpectedLimit(qdisc.hist))
    /\ [][ (qdisc.st = "parsing" /\ qdisc'.hist # qdisc.hist
              /\ ~isempty(qdisc'.hist[Len(qdisc'.hist)])
              /\ ~Parsed(qdisc'.hist[Len(qdisc'.hist)]))
             => /\ qdisc'.limit = qdisc.limit
                /\ qdisc'.log = "ignoring assignment" /\ qdisc'.r = 0 ]_vars

\* the limit was set to 7, an assignment that is no number followed, and the
\* qdisc was dropped: no message went to the kernel
C35_Observed ==
    /\ qdisc.st = "dropped" /\ qdisc.hist = <<"7", "junk">>
    /\ qdisc.limit = 7 /\ qdisc.msg = Null

====
